---- MODULE Spec2Model ----
(***************************************************************************)
(* A model of tigrisfs' Azure Blob backend driver (core/backend_azblob.go) *)
(* and of the mount behaviour its shell tests exercise.                    *)
(*                                                                         *)
(* The module holds several specifications over one set of variables; each *)
(* specification moves one group of variables and leaves the others at     *)
(* their initial values:                                                   *)
(*   SpecCopy    CopyBlob as used by the copy-then-delete rename fallback  *)
(*   SpecDelete  DeleteBlobs, its goroutines and SmallActionsGate          *)
(*   SpecBlob    PutBlob, HeadBlob, GetBlob, ListBlobs, DeleteBlob and the   *)
(*               operations the driver does not support, one at a time     *)
(*   SpecMount   one mount: the inode graph, the flusher, rename jobs and  *)
(*               unmount over a backend, next to a reference directory     *)
(*   SpecCluster three nodes mounting one bucket, owners and invalidations *)
(*   SpecError   the error an operation returns for a failed request       *)
(*   SpecMulti   multipart uploads: begin, add, copy, abort and commit     *)
(*   SpecToken   refreshToken and updateToken called by concurrent         *)
(*               operations, the mutex and tokenRenewGate; FairToken adds  *)
(*               the scheduler's fairness                                  *)
(*   SpecBlockId the block ids MultipartBlobAdd and MultipartBlobCopy give *)
(*               to the parts of multipart uploads                         *)
(***************************************************************************)
EXTENDS Integers, Sequences, FiniteSets, TLC

VARIABLES
  \* ---- SpecCopy: CopyBlob and the service's copy operations
  cpBlob,     \* blob name -> content held by the service (Absent when no blob)
  cpLast,     \* blob name -> id of the latest copy started onto it (0: none)
  cpStatus,   \* copy id -> "none" | "pending" | "success" | "aborted" | "failed"
  cpPc,       \* caller -> position inside CopyBlob / the rename job
  cpParam,    \* caller -> [src, dst] the CopyBlobInput (CopyBlob rewrites it)
  cpRet,      \* caller -> "none" | "ok" | an errno
  \* ---- SpecDelete: DeleteBlobs, its goroutines and SmallActionsGate
  gate,       \* number of values in the channel SmallActionsGate
  dlStore,    \* blob name -> Absent | "plain" | "marker"
  dlItems,    \* call -> param.Items
  dlPc,       \* call -> position of DeleteBlobs' own goroutine
  dlIdx,      \* call -> index of the loop over param.Items
  dlWg,       \* call -> the sync.WaitGroup's counter
  dlErr,      \* call -> the named result deleteError ("nil" or an errno)
  dlRet,      \* call -> the named result ret ("unset", "nil", "output")
  dlG,        \* call -> index -> state of the goroutine started for that item
  dlOut,      \* call -> a DeleteBlob of its goroutines ended with an error that is
              \* not ENOENT
  \* ---- SpecBlob: the driver's blob operations against the service
  store,      \* the container: name of each blob it holds -> the blob's metadata
  endpoint,   \* "azure" | "hns" | "azurite": what b.config.Endpoint points at
  azb,        \* the AZBlob's SAS token: "fresh" | "expired"
  res,        \* the operation that led to this state: input, result, requests
  \* ---- SpecMount: one mount of a bucket, and the tests' reference directory
  mtInodes,   \* inode -> [exists, name, data, state, cached, at, moved]
  mtFlight,   \* file inode -> the flush in flight: [data, key, parts, stale]
              \* (parts: part number -> content of the part uploaded)
  mtCopied,   \* the inodes whose object the rename job has copied, not yet deleted
  mtBackend,  \* the bucket: key -> content of the object
  mtCaps,     \* [mode: "copy" | "rename", markers: directory markers required]
  mtPhase,    \* "mounted" | "unmounting" | "unmounted"
  mtRead,     \* the last read through the mount: [valid, data, expect, fetched]
  mtRef,      \* the reference directory: path -> content of the file
  \* ---- SpecCluster: three nodes mounting one bucket
  clKids,     \* directory -> its child map, held by the directory's owner
  clData,     \* file -> its content, held by the file's owner
  clCache,    \* node -> directory -> [valid, kids]: the node's cached listing
  clOp,       \* the operation under way: [kind, via, target, child, stage, pending]
  clList,     \* node -> [listed, paths]: what find printed on the node's mount
  clRef,      \* the paths of the reference directory
  \* ---- SpecError: the error a failed request is answered with
  erOp,       \* the operation whose request failed ("none": no call under way)
  erErr,      \* the error the request ended with
  erRet,      \* the error the operation returned
  \* ---- SpecMulti: multipart uploads onto block blobs
  muBlob,     \* key -> the block blob: [exists, blocks (the committed blocks), meta]
  muStaged,   \* key -> block id -> [staged, data]: the blob's uncommitted blocks
  muUp,       \* upload -> the caller's MultipartBlobCommitInput and its state
  muRes,      \* the last call: [op, err, requests]
  muCommit,   \* the last call, when a MultipartBlobCommit: [u, numParts, sent (a
              \* CommitBlockList request was sent), ids (its block list), reqErr
              \* (what the request ended with), ret (the error returned), hasOut]
  \* ---- SpecToken: refreshToken, updateToken and the SAS token's renewal
  tkProvider, \* b.sasTokenProvider is not nil
  tkBuffer,   \* b.tokenRenewBuffer
  tkLeft,     \* b.tokenExpire - time.Now(): the time left to the token's expiry
  tkC,        \* b.c: 0 (nil) or the container URL built last (1 or 2 in turn)
  tkMu,       \* b.mu: 0 (unlocked) or the goroutine that locked it
  tkGate,     \* b.tokenRenewGate: 0 (empty) or the goroutine whose value it holds
  tkFatal,    \* the runtime stopped the program: unlock of an unlocked mutex
  tkPc,       \* goroutine -> position in refreshToken / updateToken
  tkPath,     \* caller -> the branch of refreshToken its call took
  tkOwn,      \* goroutine -> the result of its own updateToken ("none": not called)
  tkSaw,      \* caller -> an updateToken has stored a token since the call began
  tkRet,      \* caller -> what refreshToken returned: [c, err]
  \* ---- SpecBlockId: the block ids of the parts of multipart uploads
  biUp,       \* upload -> its UploadId (empty: the upload has not begun)
  biPrev,     \* the call before the last one: [op, u, n, id]
  biLast      \* the last MultipartBlobAdd or MultipartBlobCopy: [op, u, n, id]

cpVars == <<cpBlob, cpLast, cpStatus, cpPc, cpParam, cpRet>>
dlVars == <<gate, dlStore, dlItems, dlPc, dlIdx, dlWg, dlErr, dlRet, dlG, dlOut>>

blVars == <<store, endpoint, azb, res>>

mtVars == <<mtInodes, mtFlight, mtCopied, mtBackend, mtCaps, mtPhase, mtRead, mtRef>>

clVars == <<clKids, clData, clCache, clOp, clList, clRef>>

erVars == <<erOp, erErr, erRet>>

\* the groups of the driver's further specifications
muVars == <<muBlob, muStaged, muUp, muRes, muCommit>>
tkVars == <<tkProvider, tkBuffer, tkLeft, tkC, tkMu, tkGate, tkFatal, tkPc, tkPath,
            tkOwn, tkSaw, tkRet>>
biVars == <<biUp, biPrev, biLast>>
drVars == <<erVars, muVars, tkVars, biVars>>

vars == <<cpVars, dlVars, blVars, mtVars, clVars, drVars>>

\* what each group of actions leaves alone
cpOthers == <<dlVars, blVars, mtVars, clVars, drVars>>
dlOthers == <<cpVars, blVars, mtVars, clVars, drVars>>
blOthers == <<cpVars, dlVars, mtVars, clVars, drVars>>
mtOthers == <<cpVars, dlVars, blVars, clVars, drVars>>
clOthers == <<cpVars, dlVars, blVars, mtVars, drVars>>
erOthers == <<cpVars, dlVars, blVars, mtVars, clVars, muVars, tkVars, biVars>>
muOthers == <<cpVars, dlVars, blVars, mtVars, clVars, erVars, tkVars, biVars>>
tkOthers == <<cpVars, dlVars, blVars, mtVars, clVars, erVars, muVars, biVars>>
biOthers == <<cpVars, dlVars, blVars, mtVars, clVars, erVars, muVars, tkVars>>

(***************************************************************************)
(* Keys.  A key is a sequence of one-character strings, so that the        *)
(* driver's suffix tests and slices are computed and not assumed.          *)
(***************************************************************************)
Slash == "/"

\* strings.HasSuffix(k, "/")
HasSuffixSlash(k) == Len(k) > 0 /\ k[Len(k)] = Slash

\* k[:len(k)-1]
TrimLast(k) == SubSeq(k, 1, Len(k) - 1)

Absent == "absent"
Empty == "empty"

(***************************************************************************)
(* SpecBlob: state                                                         *)
(***************************************************************************)
\* AzureDirBlobMetadataKey
DirKey == "hdi_isfolder"

\* a map[string]string / map[string]*string is a function from its keys; a nil
\* map reads and ranges like the empty one
NoMeta == [k \in {} |-> ""]

\* the empty container
NoBlobs == [n \in {} |-> NoMeta]
NoOut == [none |-> TRUE]
NoRes == [op |-> "none"]

BlobInit ==
  /\ store = NoBlobs
  /\ endpoint = "azure"
  /\ azb = "fresh"
  /\ res = NoRes

\* the other specifications start from the same container, on one endpoint
BlobIdle == BlobInit

(***************************************************************************)
(* SpecMount: state.  The mount's code is not part of the sources at hand; *)
(* it is modelled from the specification (sections 3, 4.1, 4.2, 4.4, 4.5   *)
(* and 5) and driven the way the shell tests drive it.                     *)
(***************************************************************************)
\* the inodes of the model: the directory D ("d", renamed to "e" and back), its
\* subdirectory S ("d/s") and the file F ("d/s/f", renamed to "d/s/g" and back)
DirIds == {"D", "S"}
FileIds == {"F"}
Ids == DirIds \cup FileIds
Parent(i) == IF i = "D" THEN "root" ELSE IF i = "S" THEN "D" ELSE "S"
FirstName(i) == IF i = "D" THEN "d" ELSE IF i = "S" THEN "s" ELSE "f"
OtherName(nm) == IF nm = "d" THEN "e" ELSE IF nm = "e" THEN "d"
                 ELSE IF nm = "f" THEN "g" ELSE "f"

\* contents: a sequence of parts; one part is below the multipart threshold
\* (the tests' 20 bytes), more parts are above it (the tests' megabytes)
Contents == {<<"x">>, <<"y">>, <<"y", "z">>}
NoData == <<>>
NoKey == <<>>
NoFlight == [data |-> NoData, key |-> NoKey, parts |-> <<>>, stale |-> FALSE]
NoRead == [valid |-> FALSE, data |-> NoData, expect |-> NoData, fetched |-> FALSE]
NoInode(i) ==
  [exists |-> FALSE, name |-> FirstName(i), data |-> NoData, state |-> "Clean",
   cached |-> FALSE, at |-> NoKey, moved |-> FALSE]
NoObjects == [k \in {} |-> NoData]

MountInit ==
  /\ mtInodes = [i \in Ids |-> NoInode(i)]
  /\ mtFlight = [i \in FileIds |-> NoFlight]
  /\ mtCopied = {}
  /\ mtBackend = NoObjects
  /\ mtCaps = [mode |-> "copy", markers |-> TRUE]
  /\ mtPhase = "mounted"
  /\ mtRead = NoRead
  /\ mtRef = NoObjects

\* the other specifications leave the mount as it starts
MountIdle == MountInit

(***************************************************************************)
(* SpecCluster: state.  The cluster coordinator's code is not part of the  *)
(* sources at hand; it is modelled from section 4.7 of the specification   *)
(* and driven the way the random test drives its three mounts.             *)
(***************************************************************************)
\* the three peers of the test
NumNodes == 3
Nodes == 1 .. NumNodes

\* the inodes of the model: the root R, the directory A ("a"), the file F
\* ("f"), the directory B ("a/b") and the file G ("a/g")
ClDirs == {"R", "A", "B"}
ClFiles == {"F", "G"}
ClParent(i) == IF i \in {"A", "F"} THEN "R" ELSE "A"
ClChildren(d) == {i \in (ClDirs \cup ClFiles) \ {"R"} : ClParent(i) = d}
ClPath(i) ==
  IF i = "A" THEN <<"a">> ELSE IF i = "F" THEN <<"f">>
  ELSE IF i = "B" THEN <<"a", "b">> ELSE <<"a", "g">>
ClId(i) ==
  IF i = "R" THEN 1 ELSE IF i = "A" THEN 2 ELSE IF i = "F" THEN 3
  ELSE IF i = "B" THEN 4 ELSE 5

\* section 4.7: owner_id = hash(inode_id) mod membership
Owner(i) == (ClId(i) % NumNodes) + 1

NoCache == [valid |-> FALSE, kids |-> {}]
NoOp == [kind |-> "none", via |-> 0, target |-> "R", child |-> "R", stage |-> "idle",
         pending |-> {}]
NotListed == [listed |-> FALSE, paths |-> {}]

ClusterInit ==
  /\ clKids = [d \in ClDirs |-> {}]
  /\ clData = [f \in ClFiles |-> "none"]
  /\ clCache = [n \in Nodes |-> [d \in ClDirs |-> NoCache]]
  /\ clOp = NoOp
  /\ clList = [n \in Nodes |-> NotListed]
  /\ clRef = {}

\* the other specifications leave the cluster as it starts
ClusterIdle == ClusterInit

(***************************************************************************)
(* SpecError: state                                                        *)
(***************************************************************************)
\* an error value: nil, an azblob.StorageError (its ServiceCode, and what
\* mapHttpError makes of its Response().StatusCode: an errno or "nil"), another
\* error of the request (of the transport, of the context), or a syscall.Errno
NilErr == [kind |-> "nil", code |-> "", http |-> "nil"]
Errno(e) == [kind |-> "errno", code |-> e, http |-> "nil"]
StorageError(code, http) == [kind |-> "storage", code |-> code, http |-> http]
OtherError(what) == [kind |-> "other", code |-> what, http |-> "nil"]

ErrorInit ==
  /\ erOp = "none"
  /\ erErr = NilErr
  /\ erRet = NilErr

(***************************************************************************)
(* SpecMulti: state                                                        *)
(***************************************************************************)
\* most parts of an upload of the model (the driver allows 50000, line 830)
MaxParts == 2
MuParts == 1 .. MaxParts
MuUploads == {1, 2}
MuKeys == {<<"k">>, <<"s">>}
\* line 842: the block id of a part, fmt.Sprintf(uploadId, PartNumber) in base64:
\* one id for each upload and part number
BlockId(u, p) == <<u, p>>
BlockIds == {BlockId(u, p) : u \in MuUploads, p \in MuParts}
NoPart == <<>>
NoBlock == [staged |-> FALSE, data |-> <<>>]
NoObject == [exists |-> FALSE, blocks |-> <<>>, meta |-> NoMeta]
NoUpload == [state |-> "none", key |-> <<>>, meta |-> NoMeta,
             parts |-> [p \in MuParts |-> NoPart]]
NoCall == [op |-> "none", err |-> "nil", requests |-> 0]
NoCommit ==
  [u |-> 0, numParts |-> 0, sent |-> FALSE, ids |-> <<>>, reqErr |-> NilErr,
   ret |-> NilErr, hasOut |-> FALSE]
\* the blob the parts are copied from, and a blob at the target key
SourceObject ==
  [exists |-> TRUE, blocks |-> <<[id |-> BlockId(0, 1), data |-> <<"s", "t">>]>>,
   meta |-> NoMeta]
OldObject ==
  [exists |-> TRUE, blocks |-> <<[id |-> BlockId(0, 1), data |-> <<"o">>]>>,
   meta |-> NoMeta]

MultiInit ==
  /\ muBlob \in {[k \in MuKeys |-> IF k = <<"s">> THEN SourceObject ELSE o] :
                   o \in {NoObject, OldObject}}
  /\ muStaged = [k \in MuKeys |-> [id \in BlockIds |-> NoBlock]]
  /\ muUp = [u \in MuUploads |-> NoUpload]
  /\ muRes = NoCall
  /\ muCommit = NoCommit

MultiIdle ==
  /\ muBlob = [k \in MuKeys |-> IF k = <<"s">> THEN SourceObject ELSE NoObject]
  /\ muStaged = [k \in MuKeys |-> [id \in BlockIds |-> NoBlock]]
  /\ muUp = [u \in MuUploads |-> NoUpload]
  /\ muRes = NoCall
  /\ muCommit = NoCommit

(***************************************************************************)
(* SpecToken: state                                                        *)
(***************************************************************************)
\* the time a token of the provider is valid for, and the longest time past a
\* token's expiry that the model tells apart
TokenLife == 1
MaxPast == 1
\* the goroutines of the operations that call refreshToken, and the goroutine
\* that refreshToken starts for the renewal in the background (line 249)
TkCallers == {1, 2}
Renewer == Cardinality(TkCallers) + 1
Goroutines == TkCallers \cup {Renewer}
NoReturn == [c |-> 0, err |-> "unset"]

\* lines 123-200: with a provider the container URL is nil until the first
\* updateToken, without one it is built from the account's key
TokenInit ==
  /\ tkProvider \in BOOLEAN
  /\ tkBuffer \in {-1, 1}
  /\ tkLeft = -MaxPast
  /\ tkC = IF tkProvider THEN 0 ELSE 1
  /\ tkMu = 0
  /\ tkGate = 0
  /\ tkFatal = FALSE
  /\ tkPc = [g \in Goroutines |-> "idle"]
  /\ tkPath = [p \in TkCallers |-> "none"]
  /\ tkOwn = [g \in Goroutines |-> "none"]
  /\ tkSaw = [p \in TkCallers |-> FALSE]
  /\ tkRet = [p \in TkCallers |-> NoReturn]

TokenIdle ==
  /\ tkProvider = FALSE
  /\ tkBuffer = 1
  /\ tkLeft = -MaxPast
  /\ tkC = 1
  /\ tkMu = 0
  /\ tkGate = 0
  /\ tkFatal = FALSE
  /\ tkPc = [g \in Goroutines |-> "idle"]
  /\ tkPath = [p \in TkCallers |-> "none"]
  /\ tkOwn = [g \in Goroutines |-> "none"]
  /\ tkSaw = [p \in TkCallers |-> FALSE]
  /\ tkRet = [p \in TkCallers |-> NoReturn]

\* the other specifications make no call that is followed here
(***************************************************************************)
(* SpecBlockId: state                                                      *)
(***************************************************************************)
BiUploads == {1, 2}
NoUploadId == <<>>
NoIdCall == [op |-> "none", u |-> 0, n |-> 0, id |-> <<>>]

BlockIdInit ==
  /\ biUp = [u \in BiUploads |-> NoUploadId]
  /\ biPrev = NoIdCall
  /\ biLast = NoIdCall

DriverIdle == ErrorInit /\ MultiIdle /\ TokenIdle /\ BlockIdInit

(***************************************************************************)
(* SpecBlob: strings, metadata maps and sorting                            *)
(***************************************************************************)
\* the byte of a one-character string
Byte(ch) ==
  CASE ch = "/" -> 47 [] ch = "a" -> 97 [] ch = "b" -> 98 [] ch = "c" -> 99

RECURSIVE StrLess(_, _)
\* Go's x < y on strings: bytewise, a proper prefix first
StrLess(x, y) ==
  IF Len(y) = 0 THEN FALSE
  ELSE IF Len(x) = 0 THEN TRUE
  ELSE IF Byte(x[1]) # Byte(y[1]) THEN Byte(x[1]) < Byte(y[1])
  ELSE StrLess(Tail(x), Tail(y))

\* strings.HasPrefix(n, p)
HasPrefix(n, p) == Len(n) >= Len(p) /\ SubSeq(n, 1, Len(p)) = p

\* strings.ToLower on a metadata key
ToLower(k) == IF k = "Mode" THEN "mode" ELSE k

\* a delete that leaves the map as it is
MetaKeep(m, k) == m

\* delete(m, k)
MetaDelete(m, k) == [j \in DOMAIN m \ {k} |-> m[j]]

\* m[k] = v
MetaSet(m, k, v) == [j \in DOMAIN m \cup {k} |-> IF j = k THEN v ELSE m[j]]

\* m[k] of a map[string]string: the zero value "" for a missing key
MetaGet(m, k) == IF k \in DOMAIN m THEN m[k] ELSE ""

\* lines 412-419: nilMetadata lower-cases the keys (the inputs of the model hold
\* no two keys that differ in case only)
nilMetadata(m) ==
  [k \in {ToLower(j) : j \in DOMAIN m} |->
     m[CHOOSE j \in DOMAIN m : ToLower(j) = k]]

\* PMetadata: map[string]string to map[string]*string, keys in lower case
PMetadata(m) ==
  [k \in {ToLower(j) : j \in DOMAIN m} |->
     m[CHOOSE j \in DOMAIN m : ToLower(j) = k]]

\* sort.IsSorted over the names of a sequence of names
IsSortedNames(s) == \A i \in 1 .. Len(s) - 1 : ~StrLess(s[i + 1], s[i])

RECURSIVE InsertName(_, _)
InsertName(sorted, x) ==
  IF Len(sorted) = 0 THEN <<x>>
  ELSE IF StrLess(x, sorted[1]) THEN <<x>> \o sorted
  ELSE <<sorted[1]>> \o InsertName(Tail(sorted), x)

RECURSIVE SortNames(_)
\* sort.Sort(sortBlobPrefixOutput(prefixes)): ascending by prefix
SortNames(s) ==
  IF Len(s) = 0 THEN <<>> ELSE InsertName(SortNames(SubSeq(s, 1, Len(s) - 1)), s[Len(s)])

RECURSIVE InsertItem(_, _)
InsertItem(sorted, x) ==
  IF Len(sorted) = 0 THEN <<x>>
  ELSE IF StrLess(x.key, sorted[1].key) THEN <<x>> \o sorted
  ELSE <<sorted[1]>> \o InsertItem(Tail(sorted), x)

RECURSIVE SortItems(_)
\* sort.Sort(sortBlobItemOutput(items)): ascending by key
SortItems(s) ==
  IF Len(s) = 0 THEN <<>> ELSE InsertItem(SortItems(SubSeq(s, 1, Len(s) - 1)), s[Len(s)])

RECURSIVE Perms(_)
\* every order of the elements of a sequence
Perms(s) ==
  IF Len(s) <= 1 THEN {s}
  ELSE UNION {{<<s[i]>> \o q :
                 q \in Perms(SubSeq(s, 1, i - 1) \o SubSeq(s, i + 1, Len(s)))} :
              i \in 1 .. Len(s)}

\* the container holds a blob of the name
Has(st, n) == n \in DOMAIN st
\* the container after a blob was written, or removed
StorePut(st, n, metadata) ==
  [x \in DOMAIN st \cup {n} |-> IF x = n THEN metadata ELSE st[x]]
StoreRemove(st, n) == [x \in DOMAIN st \ {n} |-> st[x]]

(***************************************************************************)
(* SpecBlob: what the service answers                                      *)
(***************************************************************************)
\* the position of the first "/" of n behind its first `from` characters, 0 if none
FirstSlashAfter(n, from) ==
  LET S == {i \in from + 1 .. Len(n) : n[i] = Slash}
  IN IF S = {} THEN 0 ELSE CHOOSE i \in S : \A j \in S : i <= j

\* one entry of a listing of prefix p: the blob, or with a delimiter the common
\* prefix that the blob's name rolls up to
ServiceEntry(st, n, p, delim) ==
  IF delim /\ FirstSlashAfter(n, Len(p)) > 0
  THEN [kind |-> "prefix", name |-> SubSeq(n, 1, FirstSlashAfter(n, Len(p))),
        meta |-> NoMeta]
  ELSE [kind |-> "blob", name |-> n, meta |-> st[n]]

RECURSIVE EntriesInOrder(_)
EntriesInOrder(S) ==
  IF S = {} THEN <<>>
  ELSE LET m == CHOOSE x \in S : \A y \in S : ~StrLess(y.name, x.name)
       IN <<m>> \o EntriesInOrder(S \ {m})

\* the whole listing of prefix p in name order.  An account with hierarchical
\* namespaces answers a listing of "some/path/" with the blob "some/path" when
\* that is a file (lines 551-556).
ServiceEntries(st, ep, p, delim) ==
  IF /\ ep = "hns"
     /\ HasSuffixSlash(p)
     /\ Has(st, TrimLast(p))
     /\ DirKey \notin DOMAIN st[TrimLast(p)]
  THEN <<[kind |-> "blob", name |-> TrimLast(p), meta |-> st[TrimLast(p)]]>>
  ELSE EntriesInOrder({ServiceEntry(st, n, p, delim) :
                         n \in {x \in DOMAIN st : HasPrefix(x, p)}})

SelectKind(s, kind) == SelectSeq(s, LAMBDA e : e.kind = kind)

\* the segments the service may answer to ListBlobsHierarchySegment or
\* ListBlobsFlatSegment: the entries behind the marker (token: 0 is none, k the
\* entries already listed), at most max of them (0: no limit), NextMarker set
\* (the entries listed so far) when more follow and otherwise nil (0) or a
\* pointer to "" (-1).  Azurite answers in any order (lines 523-527).
ServiceSegments(st, ep, p, delim, token, max) ==
  LET all == ServiceEntries(st, ep, p, delim)
      last == IF max = 0 \/ token + max > Len(all) THEN Len(all) ELSE token + max
      page == SubSeq(all, token + 1, last)
      prefixes == SelectKind(page, "prefix")
      blobs == SelectKind(page, "blob")
      nexts == IF last < Len(all) THEN {last} ELSE {0, -1}
  IN
  {[prefixes |-> [i \in 1 .. Len(ps) |-> ps[i].name], blobItems |-> bs, next |-> nx] :
     ps \in (IF ep = "azurite" THEN Perms(prefixes) ELSE {prefixes}),
     bs \in (IF ep = "azurite" THEN Perms(blobs) ELSE {blobs}),
     nx \in nexts}


(***************************************************************************)
(* SpecDelete: state                                                       *)
(***************************************************************************)
\* capacity of the channel SmallActionsGate (set from the flags, outside this file)
GateCap == 2
\* longest param.Items of a DeleteBlobs call
MaxItems == 2
DelCalls == {1, 2}
DelKeys == {<<"a", "/">>, <<"b">>}
DelNames == {<<"a">>, <<"b">>}
\* the key lists handed to DeleteBlobs: a directory key and a file key in turn
DelItemLists ==
  {[i \in 1 .. n |-> IF (i + s) % 2 = 0 THEN <<"a", "/">> ELSE <<"b">>] :
     n \in 1 .. MaxItems, s \in {0, 1}}

DeleteInit ==
  /\ gate = 0
  /\ dlStore = [n \in DelNames |-> IF n = <<"a">> THEN "plain" ELSE Absent]
  /\ dlItems = [c \in DelCalls |-> <<>>]
  /\ dlPc = [c \in DelCalls |-> "idle"]
  /\ dlIdx = [c \in DelCalls |-> 1]
  /\ dlWg = [c \in DelCalls |-> 0]
  /\ dlErr = [c \in DelCalls |-> "nil"]
  /\ dlRet = [c \in DelCalls |-> "unset"]
  /\ dlG = [c \in DelCalls |-> [i \in 1 .. MaxItems |-> "none"]]
  /\ dlOut = [c \in DelCalls |-> FALSE]

(***************************************************************************)
(* SpecCopy                                                                *)
(***************************************************************************)
\* number of concurrent rename jobs calling CopyBlob
NumCallers == 2
Callers == 1 .. NumCallers

CpSources == {<<"a">>, <<"b">>, <<"a", "/">>}
CpDests == {<<"d">>, <<"d", "/">>}
CpNames == CpSources \cup CpDests

CopyInit ==
  /\ cpBlob = [n \in CpNames |->
                 IF n = <<"a">> THEN "A" ELSE IF n = <<"b">> THEN "B" ELSE Absent]
  /\ cpLast = [n \in CpNames |-> 0]
  /\ cpStatus = [c \in Callers |-> "none"]
  /\ cpPc = [p \in Callers |-> "idle"]
  /\ cpParam = [p \in Callers |-> [src |-> <<"a">>, dst |-> <<"d">>]]
  /\ cpRet = [p \in Callers |-> "none"]

\* a rename job calls CopyBlob(&CopyBlobInput{Source: s, Destination: d})
CopyBlobCall(p, s, d) ==
  /\ cpPc[p] = "idle"
  /\ cpParam' = [cpParam EXCEPT ![p] = [src |-> s, dst |-> d]]
  /\ cpPc' = [cpPc EXCEPT ![p] = "entry"]
  /\ UNCHANGED <<cpBlob, cpLast, cpStatus, cpRet, cpOthers>>

\* lines 697-701: both keys end in "/": cut both and call CopyBlob again
CopyBlobTrim(p) ==
  /\ cpPc[p] = "entry"
  /\ HasSuffixSlash(cpParam[p].src) /\ HasSuffixSlash(cpParam[p].dst)
  /\ cpParam' = [cpParam EXCEPT ![p] = [src |-> TrimLast(cpParam[p].src),
                                        dst |-> TrimLast(cpParam[p].dst)]]
  /\ UNCHANGED <<cpBlob, cpLast, cpStatus, cpPc, cpRet, cpOthers>>

\* lines 703-706: refreshToken, which may fail with EACCES
CopyBlobRefresh(p) ==
  /\ cpPc[p] = "entry"
  /\ ~(HasSuffixSlash(cpParam[p].src) /\ HasSuffixSlash(cpParam[p].dst))
  /\ \/ /\ cpPc' = [cpPc EXCEPT ![p] = "start"]
        /\ UNCHANGED cpRet
     \/ /\ cpPc' = [cpPc EXCEPT ![p] = "returned"]
        /\ cpRet' = [cpRet EXCEPT ![p] = "EACCES"]
  /\ UNCHANGED <<cpBlob, cpLast, cpStatus, cpParam, cpOthers>>

\* what the loop of lines 720-725 decides from one GetProperties answer:
\* TRUE leaves the loop
CopyPollBreaks(status, id, own) == status # "pending" \/ id # own

\* lines 708-716: StartCopyFromURL.  The service refuses (any error, and always
\* when the source does not exist) or starts copy p, which it reports finished
\* ("success") or still running ("pending").  The destination then carries the
\* id and the status of this latest copy.
CopyBlobStart(p) ==
  LET s == cpParam[p].src
      d == cpParam[p].dst
  IN
  /\ cpPc[p] = "start"
  /\ \/ /\ cpPc' = [cpPc EXCEPT ![p] = "returned"]
        /\ cpRet' = [cpRet EXCEPT ![p] = IF cpBlob[s] = Absent THEN "ENOENT" ELSE "EAGAIN"]
        /\ UNCHANGED <<cpBlob, cpLast, cpStatus>>
     \/ /\ cpBlob[s] # Absent
        /\ cpBlob' = [cpBlob EXCEPT ![d] = cpBlob[s]]
        /\ cpLast' = [cpLast EXCEPT ![d] = p]
        /\ cpStatus' = [cpStatus EXCEPT ![p] = "success"]
        /\ cpPc' = [cpPc EXCEPT ![p] = "copied"]
        /\ cpRet' = [cpRet EXCEPT ![p] = "ok"]
     \/ /\ cpBlob[s] # Absent
        /\ cpBlob' = [cpBlob EXCEPT ![d] = Empty]
        /\ cpLast' = [cpLast EXCEPT ![d] = p]
        /\ cpStatus' = [cpStatus EXCEPT ![p] = "pending"]
        /\ cpPc' = [cpPc EXCEPT ![p] = "poll"]
        /\ UNCHANGED cpRet
  /\ UNCHANGED <<cpParam, cpOthers>>

\* lines 717-731: one GetProperties of the destination.  An error is returned
\* mapped; otherwise the loop ends, and CopyBlob returns success, as soon as the
\* destination's copy is not pending or is not the copy this call started.
CopyBlobPoll(p) ==
  LET d == cpParam[p].dst
  IN
  /\ cpPc[p] = "poll"
  /\ \/ /\ cpPc' = [cpPc EXCEPT ![p] = "returned"]
        /\ cpRet' = [cpRet EXCEPT ![p] = IF cpBlob[d] = Absent THEN "ENOENT" ELSE "EAGAIN"]
     \/ /\ cpBlob[d] # Absent
        /\ CopyPollBreaks(cpStatus[cpLast[d]], cpLast[d], p)
        /\ cpPc' = [cpPc EXCEPT ![p] = "copied"]
        /\ cpRet' = [cpRet EXCEPT ![p] = "ok"]
  /\ UNCHANGED <<cpBlob, cpLast, cpStatus, cpParam, cpOthers>>

\* the rename job: DeleteBlob of the source, issued only after CopyBlob succeeded
RenameDeleteSource(p) ==
  /\ cpPc[p] = "copied"
  /\ cpBlob' = [cpBlob EXCEPT ![cpParam[p].src] = Absent]
  /\ cpPc' = [cpPc EXCEPT ![p] = "deleted"]
  /\ UNCHANGED <<cpLast, cpStatus, cpParam, cpRet, cpOthers>>

\* the service finishes a pending copy: the destination gets the source's bytes
ServiceCopyDone(c) ==
  /\ cpStatus[c] = "pending"
  /\ cpBlob[cpParam[c].src] # Absent
  /\ cpStatus' = [cpStatus EXCEPT ![c] = "success"]
  /\ cpBlob' = [cpBlob EXCEPT ![cpParam[c].dst] =
                  IF cpLast[cpParam[c].dst] = c THEN cpBlob[cpParam[c].src] ELSE @]
  /\ UNCHANGED <<cpLast, cpPc, cpParam, cpRet, cpOthers>>

\* the service ends a pending copy without copying (azblob.CopyStatusAborted,
\* azblob.CopyStatusFailed)
ServiceCopyEnds(c, how) ==
  /\ cpStatus[c] = "pending"
  /\ cpStatus' = [cpStatus EXCEPT ![c] = how]
  /\ UNCHANGED <<cpBlob, cpLast, cpPc, cpParam, cpRet, cpOthers>>

NextCopy ==
  \/ \E p \in Callers, s \in CpSources, d \in CpDests : CopyBlobCall(p, s, d)
  \/ \E p \in Callers : CopyBlobTrim(p)
  \/ \E p \in Callers : CopyBlobRefresh(p)
  \/ \E p \in Callers : CopyBlobStart(p)
  \/ \E p \in Callers : CopyBlobPoll(p)
  \/ \E p \in Callers : RenameDeleteSource(p)
  \/ \E c \in Callers : ServiceCopyDone(c)
  \/ \E c \in Callers, how \in {"aborted", "failed"} : ServiceCopyEnds(c, how)

InitCopy == CopyInit /\ DeleteInit /\ BlobIdle /\ MountIdle /\ ClusterIdle /\ DriverIdle

SpecCopy == InitCopy /\ [][NextCopy]_vars

\* C1: CopyBlob returns success only when the copy it started finished
\* successfully, never when that copy ended failed or aborted; so a source
\* deleted after a successful CopyBlob always has its copy.
C1_CopyConfirmedBeforeDelete ==
  \A p \in Callers :
    cpPc[p] \in {"copied", "deleted"} => cpStatus[p] \notin {"aborted", "failed"}

\* C2: CopyBlob returns success only after the copy that it itself started is
\* no longer pending, also when another call's CopyID is seen on the destination.
C2_OwnCopyNotPendingAtReturn ==
  \A p \in Callers :
    cpPc[p] \in {"copied", "deleted"} => cpStatus[p] # "pending"

(***************************************************************************)
(* SpecDelete: DeleteBlob and DeleteBlobs                                  *)
(***************************************************************************)
RECURSIVE DeleteBlobName(_)
\* lines 642-646: DeleteBlob cuts a trailing "/" and calls itself, so the blob
\* it deletes is the key without its trailing slashes
DeleteBlobName(key) ==
  IF HasSuffixSlash(key) THEN DeleteBlobName(TrimLast(key)) ELSE key

\* the errors a DeleteBlob can end with when the blob exists (refreshToken's
\* EACCES, a mapped service error)
DelErrors == {"EAGAIN"}

\* DeleteBlobs is called with a list of keys
DeleteBlobsCall(c, items) ==
  /\ dlPc[c] = "idle"
  /\ dlItems' = [dlItems EXCEPT ![c] = items]
  /\ dlPc' = [dlPc EXCEPT ![c] = "acquire"]
  /\ UNCHANGED <<gate, dlStore, dlIdx, dlWg, dlErr, dlRet, dlG, dlOut, dlOthers>>

\* line 666: SmallActionsGate <- 1 blocks while the channel is full
GateHasRoom == gate < GateCap

\* lines 665-682: the next item: take a slot of the gate, wg.Add(1), and start
\* the goroutine go func(key) {...}(i)
DeleteBlobsSpawn(c) ==
  /\ dlPc[c] = "acquire"
  /\ GateHasRoom
  /\ gate' = gate + 1
  /\ dlWg' = [dlWg EXCEPT ![c] = @ + 1]
  /\ dlG' = [dlG EXCEPT ![c][dlIdx[c]] = "running"]
  /\ dlPc' = [dlPc EXCEPT ![c] = "check"]
  /\ UNCHANGED <<dlStore, dlItems, dlIdx, dlErr, dlRet, dlOut, dlOthers>>

\* a loop that returns at once when it sees an error, without the deferred wait
DeleteBlobsCheckLeaves(c) ==
  /\ dlPc[c] = "check"
  /\ \E seen \in {dlErr[c], "nil"} :
       IF seen # "nil"
       THEN /\ dlPc' = [dlPc EXCEPT ![c] = "returned"]
            /\ dlRet' = [dlRet EXCEPT ![c] = "nil"]
            /\ UNCHANGED dlIdx
       ELSE IF dlIdx[c] = Len(dlItems[c])
       THEN dlPc' = [dlPc EXCEPT ![c] = "wait"] /\ UNCHANGED <<dlIdx, dlRet>>
       ELSE /\ dlPc' = [dlPc EXCEPT ![c] = "acquire"]
            /\ dlIdx' = [dlIdx EXCEPT ![c] = @ + 1]
            /\ UNCHANGED dlRet
  /\ UNCHANGED <<gate, dlStore, dlItems, dlWg, dlErr, dlG, dlOut, dlOthers>>

\* lines 684-687: if deleteError != nil { return }, else the next item or the
\* end of the loop.  The read is not synchronised with the goroutines' writes of
\* deleteError: it sees the value written or still nil.
DeleteBlobsCheck(c) ==
  /\ dlPc[c] = "check"
  /\ \E seen \in {dlErr[c], "nil"} :
       IF seen # "nil" \/ dlIdx[c] = Len(dlItems[c])
       THEN dlPc' = [dlPc EXCEPT ![c] = "wait"] /\ UNCHANGED dlIdx
       ELSE /\ dlPc' = [dlPc EXCEPT ![c] = "acquire"]
            /\ dlIdx' = [dlIdx EXCEPT ![c] = @ + 1]
  /\ UNCHANGED <<gate, dlStore, dlItems, dlWg, dlErr, dlRet, dlG, dlOut, dlOthers>>

\* a DeleteBlobs that returns without waiting for its goroutines
WaitGroupNotAwaited(c) == TRUE

\* line 657: wg.Wait() returns when the counter is zero
WaitGroupDone(c) == dlWg[c] = 0

\* lines 656-663: the deferred function: wg.Wait(), then ret from deleteError
DeleteBlobsReturn(c) ==
  /\ dlPc[c] = "wait"
  /\ WaitGroupDone(c)
  /\ dlRet' = [dlRet EXCEPT ![c] = IF dlErr[c] # "nil" THEN "nil" ELSE "output"]
  /\ dlPc' = [dlPc EXCEPT ![c] = "returned"]
  /\ UNCHANGED <<gate, dlStore, dlItems, dlIdx, dlWg, dlErr, dlG, dlOut, dlOthers>>

\* a goroutine that keeps no error
DeleteErrorDropped(err) == FALSE

\* line 678: every error of DeleteBlob but ENOENT is kept
DeleteErrorKept(err) == err # "ENOENT"

\* lines 675-681 in the goroutine of item i: DeleteBlob(key), whose error is
\* mapped and, unless ENOENT, stored in deleteError (BlobNotFound is ENOENT)
GoDeleteBlob(c, i) ==
  LET name == DeleteBlobName(dlItems[c][i])
      found == dlStore[name] # Absent
  IN
  /\ dlG[c][i] = "running"
  /\ \E out \in (IF found THEN {"deleted"} ELSE {"ENOENT"}) \cup DelErrors :
       /\ dlStore' = IF out = "deleted" THEN [dlStore EXCEPT ![name] = Absent]
                     ELSE dlStore
       /\ dlErr' = IF out # "deleted" /\ DeleteErrorKept(out)
                   THEN [dlErr EXCEPT ![c] = out] ELSE dlErr
       /\ dlOut' = [dlOut EXCEPT ![c] = @ \/ out \in DelErrors]
  /\ dlG' = [dlG EXCEPT ![c][i] = "exit"]
  /\ UNCHANGED <<gate, dlItems, dlPc, dlIdx, dlWg, dlRet, dlOthers>>

\* line 671, deferred in the goroutine: <-SmallActionsGate
GoReleaseGate(c, i) ==
  /\ dlG[c][i] = "exit"
  /\ gate' = gate - 1
  /\ dlG' = [dlG EXCEPT ![c][i] = "released"]
  /\ UNCHANGED <<dlStore, dlItems, dlPc, dlIdx, dlWg, dlErr, dlRet, dlOut, dlOthers>>

\* line 672, deferred in the goroutine: wg.Done()
GoWgDone(c, i) ==
  /\ dlG[c][i] = "released"
  /\ dlWg' = [dlWg EXCEPT ![c] = @ - 1]
  /\ dlG' = [dlG EXCEPT ![c][i] = "done"]
  /\ UNCHANGED <<gate, dlStore, dlItems, dlPc, dlIdx, dlErr, dlRet, dlOut, dlOthers>>

\* another client of the service creates a blob
ServicePutForDelete(n, kind) ==
  /\ dlStore[n] = Absent
  /\ \A c \in DelCalls : dlPc[c] = "idle"
  /\ dlStore' = [dlStore EXCEPT ![n] = kind]
  /\ UNCHANGED <<gate, dlItems, dlPc, dlIdx, dlWg, dlErr, dlRet, dlG, dlOut, dlOthers>>

NextDelete ==
  \/ \E c \in DelCalls, items \in DelItemLists : DeleteBlobsCall(c, items)
  \/ \E c \in DelCalls : DeleteBlobsSpawn(c)
  \/ \E c \in DelCalls : DeleteBlobsCheck(c)
  \/ \E c \in DelCalls : DeleteBlobsReturn(c)
  \/ \E c \in DelCalls, i \in 1 .. MaxItems : GoDeleteBlob(c, i)
  \/ \E c \in DelCalls, i \in 1 .. MaxItems : GoReleaseGate(c, i)
  \/ \E c \in DelCalls, i \in 1 .. MaxItems : GoWgDone(c, i)
  \/ \E n \in DelNames, kind \in {"plain", "marker"} : ServicePutForDelete(n, kind)

InitDelete == CopyInit /\ DeleteInit /\ BlobIdle /\ MountIdle /\ ClusterIdle /\ DriverIdle

SpecDelete == InitDelete /\ [][NextDelete]_vars

\* the goroutines of call c that hold a slot of the gate
SlotHolders(c) == {i \in 1 .. MaxItems : dlG[c][i] \in {"running", "exit"}}
\* the slots call c has taken and not given back
SlotsHeld(c) == Cardinality(SlotHolders(c))
\* the per-key deletes in flight
InFlight == {ci \in DelCalls \X (1 .. MaxItems) : dlG[ci[1]][ci[2]] = "running"}

\* C7: every per-key delete runs holding a slot of SmallActionsGate taken before
\* it started: the deletes in flight never exceed the gate's capacity, the gate
\* holds exactly the slots the calls have taken, and a call that has returned
\* holds none.
C7_GateBoundsDeletes ==
  /\ Cardinality(InFlight) <= GateCap
  /\ gate = SlotsHeld(1) + SlotsHeld(2)
  /\ \A c \in DelCalls : dlPc[c] = "returned" => SlotsHeld(c) = 0

\* a call of two keys has returned, all its deletes done, while the deletes of
\* the other call fill the gate
C7_Witness ==
  \E c \in DelCalls :
    /\ dlPc[c] = "returned"
    /\ Len(dlItems[c]) = 2
    /\ \A i \in 1 .. 2 : dlG[c][i] = "done"
    /\ gate = GateCap
    /\ Cardinality(InFlight) > 0

\* the items of call c whose goroutine was started
Started(c) == {i \in 1 .. Len(dlItems[c]) : dlG[c][i] # "none"}

\* C19: DeleteBlobs returns an error and a nil output exactly when a delete it
\* started failed with an error other than ENOENT; otherwise it returns an
\* output and no error, a delete was made for every key of the input, missing
\* keys included, and no key of the input is in the container.
C19_ErrorIffDeleteFailed ==
  \A c \in DelCalls :
    dlPc[c] = "returned" =>
      /\ (dlErr[c] # "nil" /\ dlRet[c] = "nil") <=> dlOut[c]
      /\ (dlErr[c] = "nil" /\ dlRet[c] = "output") <=> ~dlOut[c]
      /\ dlErr[c] = "nil" =>
           /\ Started(c) = 1 .. Len(dlItems[c])
           /\ \A i \in 1 .. Len(dlItems[c]) :
                dlStore[DeleteBlobName(dlItems[c][i])] = Absent

\* both calls were given the same two keys and returned an output: each key was
\* deleted by one call at most and was missing for the other
C19_Witness ==
  /\ \A c \in DelCalls :
       /\ dlPc[c] = "returned"
       /\ dlRet[c] = "output"
       /\ Len(dlItems[c]) = 2
  /\ dlItems[1] = dlItems[2]

\* C20: when DeleteBlobs has returned, every goroutine it started has ended,
\* also when the loop stopped at an error before the last key.
C20_ReturnsAfterAllDeletes ==
  \A c \in DelCalls :
    dlPc[c] = "returned" => \A i \in 1 .. MaxItems : dlG[c][i] \in {"none", "done"}

\* a call of two keys stopped after its first delete failed, and returned when
\* that goroutine had ended, while a delete of the other call was running
C20_Witness ==
  \E c, d \in DelCalls :
    /\ dlPc[c] = "returned"
    /\ Len(dlItems[c]) = 2
    /\ dlOut[c]
    /\ dlG[c][1] = "done"
    /\ dlG[c][2] = "none"
    /\ \E i \in 1 .. MaxItems : dlG[d][i] = "running"

(***************************************************************************)
(* SpecBlob: the driver's operations                                       *)
(***************************************************************************)
\* lines 214-270, as one step: refreshToken returns the container, after renewing
\* an expired token, or fails with EACCES when the renewal fails
RefreshOutcomes(tok) == IF tok = "expired" THEN {"renewed", "EACCES"} ELSE {"ok"}
RefreshFails(rf) == rf = "EACCES"
AfterRefresh(tok, rf) == IF rf = "renewed" THEN "fresh" ELSE tok

\* the outcome of one request to the service, apart from what the container holds
ServiceOutcomes == {"ok", "EAGAIN"}

\* no call of the driver is under way, and no result waits for the caller
Idle == res = NoRes

\* what an operation returns: err ("nil" or an errno), the output (hasOut FALSE:
\* a nil output), whether refreshToken was called, the requests sent
Result(op, in, err, hasOut, out, refreshed, requests) ==
  [op |-> op, in |-> in, err |-> err, hasOut |-> hasOut, out |-> out,
   refreshed |-> refreshed, requests |-> requests]

\* the key's suffix alone, without the look into the metadata
HeadIsDirBySuffix(key, metadata) == HasSuffixSlash(key)

\* lines 444-448: a blob is a directory marker when its metadata holds the key
HeadIsDirBlob(key, metadata) == HasSuffixSlash(key) \/ DirKey \in DOMAIN metadata

\* a HeadBlob that hands the inner call's error on as it came
HeadDirErrorKept(dirBlob) == dirBlob.err

\* lines 429-434: the inner call found a blob that is no directory marker
HeadDirError(dirBlob) ==
  IF dirBlob.err = "nil" /\ ~dirBlob.out.isDir THEN "ENOENT" ELSE dirBlob.err

RECURSIVE HeadBlobOut(_, _, _)
\* lines 427-463: HeadBlob of key, behind its refreshToken; sv is the outcome of
\* the GetProperties request.  The result is [err, hasOut, out, requests].
HeadBlobOut(st, key, sv) ==
  IF HasSuffixSlash(key)
  THEN LET dirBlob == HeadBlobOut(st, TrimLast(key), sv)
       IN [dirBlob EXCEPT !.err = HeadDirError(dirBlob)]
  ELSE IF sv # "ok"
       THEN [err |-> sv, hasOut |-> FALSE, out |-> NoOut, requests |-> 1]
  ELSE IF ~Has(st, key)
       THEN [err |-> "ENOENT", hasOut |-> FALSE, out |-> NoOut, requests |-> 1]
  ELSE [err |-> "nil", hasOut |-> TRUE,
        out |-> [key |-> key,
                 meta |-> PMetadata(MetaDelete(st[key], DirKey)),
                 isDir |-> HeadIsDirBlob(key, st[key])],
        requests |-> 1]

HeadBlob(key, rf, sv) ==
  LET in == [key |-> key]
      h == HeadBlobOut(store, key, sv)
  IN
  /\ Idle
  /\ azb' = AfterRefresh(azb, rf)
  /\ res' = IF RefreshFails(rf)
            THEN Result("HeadBlob", in, "EACCES", FALSE, NoOut, TRUE, 0)
            ELSE Result("HeadBlob", in, h.err, h.hasOut, h.out, TRUE, h.requests)
  /\ UNCHANGED <<store, endpoint, blOthers>>

\* lines 734-773: GetBlob downloads the blob named by the key as it is
GetBlob(key, rf, sv) ==
  LET in == [key |-> key]
  IN
  /\ Idle
  /\ azb' = AfterRefresh(azb, rf)
  /\ res' = IF RefreshFails(rf)
            THEN Result("GetBlob", in, "EACCES", FALSE, NoOut, TRUE, 0)
            ELSE IF sv # "ok"
            THEN Result("GetBlob", in, sv, FALSE, NoOut, TRUE, 1)
            ELSE IF ~Has(store, key)
            THEN Result("GetBlob", in, "ENOENT", FALSE, NoOut, TRUE, 1)
            ELSE Result("GetBlob", in, "nil", TRUE,
                        [key |-> key,
                         meta |-> MetaDelete(PMetadata(store[key]), DirKey)],
                        TRUE, 1)
  /\ UNCHANGED <<store, endpoint, blOthers>>

RECURSIVE PutBlobParam(_)
\* lines 781-792: a DirBlob whose key ends in "/" becomes a blob without the
\* slash that carries the hdi_isfolder flag, and PutBlob is called again
PutBlobParam(param) ==
  IF param.dirBlob /\ HasSuffixSlash(param.key)
  THEN PutBlobParam([param EXCEPT !.key = TrimLast(param.key),
                                  !.meta = MetaSet(param.meta, DirKey, "true")])
  ELSE param

\* lines 775-815
PutBlob(param, rf, sv) ==
  LET q == PutBlobParam(param)
  IN
  /\ Idle
  /\ azb' = AfterRefresh(azb, rf)
  /\ IF RefreshFails(rf)
     THEN /\ res' = Result("PutBlob", param, "EACCES", FALSE, NoOut, TRUE, 0)
          /\ UNCHANGED store
     ELSE IF sv # "ok"
     THEN /\ res' = Result("PutBlob", param, "EAGAIN", FALSE, NoOut, TRUE, 1)
          /\ UNCHANGED store
     ELSE /\ res' = Result("PutBlob", param, "nil", TRUE, NoOut, TRUE, 1)
          /\ store' = StorePut(store, q.key, nilMetadata(q.meta))
  /\ UNCHANGED <<endpoint, blOthers>>

\* lines 636-652, DeleteBlob as one operation
DeleteBlob(key, rf, sv) ==
  LET in == [key |-> key]
      name == DeleteBlobName(key)
  IN
  /\ Idle
  /\ azb' = AfterRefresh(azb, rf)
  /\ IF RefreshFails(rf)
     THEN /\ res' = Result("DeleteBlob", in, "EACCES", FALSE, NoOut, TRUE, 0)
          /\ UNCHANGED store
     ELSE IF sv # "ok"
     THEN /\ res' = Result("DeleteBlob", in, sv, FALSE, NoOut, TRUE, 1)
          /\ UNCHANGED store
     ELSE IF ~Has(store, name)
     THEN /\ res' = Result("DeleteBlob", in, "ENOENT", FALSE, NoOut, TRUE, 1)
          /\ UNCHANGED store
     ELSE /\ res' = Result("DeleteBlob", in, "nil", TRUE, NoOut, TRUE, 1)
          /\ store' = StoreRemove(store, name)
  /\ UNCHANGED <<endpoint, blOthers>>

\* lines 692-694
RenameBlob(src, dst) ==
  /\ Idle
  /\ res' = Result("RenameBlob", [src |-> src, dst |-> dst], "ENOTSUP", FALSE, NoOut,
                   FALSE, 0)
  /\ UNCHANGED <<store, endpoint, azb, blOthers>>

\* lines 929-931
MultipartExpire ==
  /\ Idle
  /\ res' = Result("MultipartExpire", [none |-> TRUE], "ENOTSUP", FALSE, NoOut, FALSE, 0)
  /\ UNCHANGED <<store, endpoint, azb, blOthers>>

\* line 523: b.config.Endpoint == AzuriteEndpoint
ConfigIsAzurite(ep) == ep = "azurite"

\* a loop that takes every listed blob for a directory marker
ListIsDirAlways(metadata) == TRUE

\* line 565: i.Metadata[AzureDirBlobMetadataKey] != ""
ListIsDirBlob(metadata) == MetaGet(metadata, DirKey) # ""

\* lines 571-573: sort.Search for the first prefix >= name (len(prefixes) + 1
\* when there is none; positions count from 1)
SearchPrefix(prefixes, name) ==
  LET S == {i \in 1 .. Len(prefixes) : ~StrLess(prefixes[i], name)}
  IN IF S = {} THEN Len(prefixes) + 1 ELSE CHOOSE i \in S : \A j \in S : i <= j

\* lines 569-583: add the prefix of a directory marker unless it is there
AddPrefix(prefixes, name) ==
  LET idx == SearchPrefix(prefixes, name)
  IN IF idx > Len(prefixes) THEN Append(prefixes, name)
     ELSE IF prefixes[idx] # name
     THEN SubSeq(prefixes, 1, idx - 1) \o <<name>> \o SubSeq(prefixes, idx, Len(prefixes))
     ELSE prefixes

\* lines 590-599: the item returned for a listed blob
ListItem(name, metadata) ==
  [key |-> name, meta |-> MetaDelete(PMetadata(metadata), DirKey)]

RECURSIVE ListLoop(_, _, _, _, _, _)
\* lines 561-600: the loop over the blobs of the segment
ListLoop(blobItems, idx, delim, prefixes, items, sortItems) ==
  IF idx > Len(blobItems)
  THEN [prefixes |-> prefixes, items |-> items, sortItems |-> sortItems]
  ELSE LET i == blobItems[idx]
           isDir == ListIsDirBlob(i.meta)
           name == IF isDir THEN Append(i.name, Slash) ELSE i.name
       IN IF isDir /\ delim
          THEN ListLoop(blobItems, idx + 1, delim, AddPrefix(prefixes, name), items,
                        sortItems)
          ELSE ListLoop(blobItems, idx + 1, delim, prefixes,
                        Append(items, ListItem(name, i.meta)), sortItems \/ isDir)

\* a driver without the special case of line 550
ListPrefixIsDir(blobItems, prefix) == FALSE

\* line 550: one blob, not longer than the prefix, and the prefix ends in "/"
ListPrefixIsBlob(blobItems, prefix) ==
  /\ Len(blobItems) = 1
  /\ Len(blobItems[1].name) <= Len(prefix)
  /\ HasSuffixSlash(prefix)

\* ListBlobsOutput{}
EmptyListing == [prefixes |-> <<>>, items |-> <<>>, next |-> 0, truncated |-> FALSE]

\* lines 518-527: the prefixes of the segment, sorted when the endpoint is Azurite
ListPrefixes(ep, seg) ==
  IF ConfigIsAzurite(ep) /\ ~IsSortedNames(seg.prefixes)
  THEN SortNames(seg.prefixes) ELSE seg.prefixes

\* a driver that hands the service's NextMarker on as it came
ListNextMarkerKept(next) == next

\* lines 624-626: a NextMarker that points to "" (-1) becomes nil (0)
ListNextMarker(next) == IF next = -1 THEN 0 ELSE next

\* lines 485-634 behind refreshToken: ListBlobs' result for the segment seg the
\* service answered; hv is the outcome of the request of the HeadBlob of line 605
ListBlobsOut(st, ep, in, seg, hv) ==
  LET loop == ListLoop(seg.blobItems, 1, in.delim, ListPrefixes(ep, seg), <<>>, FALSE)
      head == HeadBlobOut(st, in.prefix, hv)
      withDir == HasSuffixSlash(in.prefix) /\ head.err = "nil"
      items == IF withDir
               THEN Append(loop.items,
                           [key |-> Append(head.out.key, Slash), meta |-> head.out.meta])
               ELSE loop.items
      next == ListNextMarker(seg.next)
  IN
  IF ListPrefixIsBlob(seg.blobItems, in.prefix)
  THEN [err |-> "nil", hasOut |-> TRUE, out |-> EmptyListing, requests |-> 1]
  ELSE IF HasSuffixSlash(in.prefix) /\ head.err \notin {"nil", "ENOENT"}
  THEN [err |-> head.err, hasOut |-> FALSE, out |-> NoOut, requests |-> 2]
  ELSE [err |-> "nil", hasOut |-> TRUE,
        out |-> [prefixes |-> loop.prefixes,
                 items |-> IF loop.sortItems \/ withDir THEN SortItems(items) ELSE items,
                 next |-> next,
                 truncated |-> next # 0],
        requests |-> IF HasSuffixSlash(in.prefix) THEN 2 ELSE 1]

\* a driver that takes every ListBlobs input
ListTakesAll(in) == FALSE

\* lines 475-478: azure blob does not support startAfter
ListNotSupported(in) == in.startAfter

\* lines 474-634.  in: [prefix, delim (Delimiter is "/" or nil), token
\* (ContinuationToken, 0: nil), maxKeys (0: nil), startAfter (non-nil or nil)]
ListBlobs(in, rf, sv, seg, hv) ==
  LET l == ListBlobsOut(store, endpoint, in, seg, hv)
  IN
  /\ Idle
  /\ IF ListNotSupported(in)
     THEN /\ res' = Result("ListBlobs", in, "ENOTSUP", FALSE, NoOut, FALSE, 0)
          /\ UNCHANGED <<store, endpoint, azb, blOthers>>
     ELSE /\ azb' = AfterRefresh(azb, rf)
          /\ res' = IF RefreshFails(rf)
                    THEN Result("ListBlobs", in, "EACCES", FALSE, NoOut, TRUE, 0)
                    ELSE IF sv # "ok"
                    THEN Result("ListBlobs", in, sv, FALSE, NoOut, TRUE, 1)
                    ELSE Result("ListBlobs", in, l.err, l.hasOut, l.out, TRUE, l.requests)
          /\ UNCHANGED <<store, endpoint, blOthers>>

\* the caller takes the result of its call
Return ==
  /\ ~Idle
  /\ res' = NoRes
  /\ UNCHANGED <<store, endpoint, azb, blOthers>>

\* another client of the container writes or removes a blob
ServicePut(n, metadata) ==
  /\ Idle
  /\ ~Has(store, n)
  /\ store' = StorePut(store, n, metadata)
  /\ res' = NoRes
  /\ UNCHANGED <<endpoint, azb, blOthers>>

ServiceRemove(n) ==
  /\ Idle
  /\ Has(store, n)
  /\ store' = StoreRemove(store, n)
  /\ res' = NoRes
  /\ UNCHANGED <<endpoint, azb, blOthers>>

\* time passes the SAS token's expiry
TokenExpires ==
  /\ Idle
  /\ azb = "fresh"
  /\ azb' = "expired"
  /\ res' = NoRes
  /\ UNCHANGED <<store, endpoint, blOthers>>

\* ---- the inputs of the model
Endpoints == {"azure", "hns", "azurite"}
PutKeys == {<<"a">>, <<"a", "/">>, <<"a", "/", "b">>}
PutMetas == {NoMeta, [k \in {"Mode"} |-> "x"], [k \in {DirKey} |-> ""]}
\* the core sets DirBlob on every key of a directory
PutParams ==
  {p \in [key : PutKeys, dirBlob : BOOLEAN, meta : PutMetas] :
     HasSuffixSlash(p.key) => p.dirBlob}
HeadKeys == {<<"a">>, <<"a", "/">>, <<"a", "/", "b">>, <<"a", "/", "b", "/">>, <<"b">>}
OtherNames == {<<"a", "/", "b", "/", "c">>, <<"b">>}
ListPrefixesIn == {<<>>, <<"a">>, <<"a", "/">>, <<"a", "/", "b", "/">>}
\* largest MaxKeys, and largest ContinuationToken, of a ListBlobs call
MaxKeysIn == 2
MaxTokenIn == 1
ListInputs ==
  [prefix : ListPrefixesIn, delim : BOOLEAN, token : 0 .. MaxTokenIn,
   maxKeys : 0 .. MaxKeysIn, startAfter : {FALSE}]
  \cup [prefix : {<<"a", "/">>}, delim : BOOLEAN, token : {0}, maxKeys : {0},
        startAfter : {TRUE}]

\* the segments, and the outcomes of the HeadBlob of line 605, that a ListBlobs
\* call can meet: none to choose when the call ends before it asks
NoSegment == [prefixes |-> <<>>, blobItems |-> <<>>, next |-> 0]
ListAsks(in, rf, sv) == ~ListNotSupported(in) /\ ~RefreshFails(rf) /\ sv = "ok"
ListSegments(in, rf, sv) ==
  IF ListAsks(in, rf, sv)
  THEN ServiceSegments(store, endpoint, in.prefix, in.delim, in.token, in.maxKeys)
  ELSE {NoSegment}
ListHeadOutcomes(in, rf, sv) ==
  IF ListAsks(in, rf, sv) /\ HasSuffixSlash(in.prefix) THEN ServiceOutcomes ELSE {"ok"}

InitBlob ==
  /\ CopyInit /\ DeleteInit /\ MountIdle /\ ClusterIdle /\ DriverIdle
  /\ store = NoBlobs
  /\ endpoint \in Endpoints
  /\ azb = "fresh"
  /\ res = NoRes

NextBlob ==
  \/ \E key \in HeadKeys, rf \in RefreshOutcomes(azb), sv \in ServiceOutcomes :
       HeadBlob(key, rf, sv)
  \/ \E key \in HeadKeys, rf \in RefreshOutcomes(azb), sv \in ServiceOutcomes :
       GetBlob(key, rf, sv)
  \/ \E param \in PutParams, rf \in RefreshOutcomes(azb), sv \in ServiceOutcomes :
       PutBlob(param, rf, sv)
  \/ \E key \in HeadKeys, rf \in RefreshOutcomes(azb), sv \in ServiceOutcomes :
       DeleteBlob(key, rf, sv)
  \/ \E src \in PutKeys, dst \in PutKeys : RenameBlob(src, dst)
  \/ MultipartExpire
  \/ \E in \in ListInputs, rf \in RefreshOutcomes(azb), sv \in ServiceOutcomes :
       \E seg \in ListSegments(in, rf, sv), hv \in ListHeadOutcomes(in, rf, sv) :
         ListBlobs(in, rf, sv, seg, hv)
  \/ \E n \in OtherNames : ServicePut(n, NoMeta)
  \/ \E n \in OtherNames : ServiceRemove(n)
  \/ TokenExpires
  \/ Return

SpecBlob == InitBlob /\ [][NextBlob]_vars

(***************************************************************************)
(* SpecBlob: properties                                                    *)
(***************************************************************************)
\* the calls the Azure driver cannot perform
IsUnsupportedCall(r) ==
  \/ r.op \in {"RenameBlob", "MultipartExpire"}
  \/ r.op = "ListBlobs" /\ r.in.startAfter

\* C8: RenameBlob, MultipartExpire and ListBlobs with a StartAfter return ENOTSUP
\* and no output, without a call of refreshToken, without a request to the
\* service, and leaving the container, the token and the endpoint as they were.
C8_NotSupportedFailsCleanly ==
  [][(Idle /\ IsUnsupportedCall(res')) =>
       /\ res'.err = "ENOTSUP"
       /\ ~res'.hasOut
       /\ ~res'.refreshed
       /\ res'.requests = 0
       /\ store' = store
       /\ azb' = azb
       /\ endpoint' = endpoint]_vars

\* ListBlobs with a StartAfter has returned while the token was expired and the
\* container held blobs
C8_Witness ==
  /\ res.op = "ListBlobs"
  /\ res.in.startAfter
  /\ res.err = "ENOTSUP"
  /\ azb = "expired"
  /\ DOMAIN store # {}

\* C9: after a successful PutBlob with DirBlob set and a key ending in "/", the
\* container holds a blob under the key without the slash whose metadata has
\* hdi_isfolder, and HeadBlob of the key, with or without the slash, returns no
\* error and IsDirBlob = true.
C9_DirMarkerRoundTrip ==
  (res.op = "PutBlob" /\ res.err = "nil" /\ res.in.dirBlob /\ HasSuffixSlash(res.in.key))
    => /\ Has(store, TrimLast(res.in.key))
       /\ DirKey \in DOMAIN store[TrimLast(res.in.key)]
       /\ \A key \in {res.in.key, TrimLast(res.in.key)} :
            /\ HeadBlobOut(store, key, "ok").err = "nil"
            /\ HeadBlobOut(store, key, "ok").out.isDir

\* a directory marker with metadata of its own has been put over a plain blob's
\* name
C9_Witness ==
  /\ res.op = "PutBlob"
  /\ res.err = "nil"
  /\ res.in.dirBlob
  /\ HasSuffixSlash(res.in.key)
  /\ DOMAIN res.in.meta # {}
  /\ Cardinality(DOMAIN store) > 1

\* C10: the metadata of the output of HeadBlob and of GetBlob, and of every item
\* of the output of ListBlobs, has no key hdi_isfolder.
C10_DirKeyHidden ==
  /\ (res.op \in {"HeadBlob", "GetBlob"} /\ res.hasOut)
       => DirKey \notin DOMAIN res.out.meta
  /\ (res.op = "ListBlobs" /\ res.hasOut)
       => \A i \in 1 .. Len(res.out.items) : DirKey \notin DOMAIN res.out.items[i].meta

\* a listing without delimiter has returned the item of a directory marker, next
\* to the item of a plain blob
C10_Witness ==
  /\ res.op = "ListBlobs"
  /\ res.hasOut
  /\ ~res.in.delim
  /\ \E i \in 1 .. Len(res.out.items) :
       /\ HasSuffixSlash(res.out.items[i].key)
       /\ Has(store, TrimLast(res.out.items[i].key))
       /\ DirKey \in DOMAIN store[TrimLast(res.out.items[i].key)]
  /\ \E i \in 1 .. Len(res.out.items) : ~HasSuffixSlash(res.out.items[i].key)

\* the keys of the items of a listing, in the listing's order
ItemKeys(items) == [i \in 1 .. Len(items) |-> items[i].key]

\* C11: the Items of every ListBlobs result are in ascending key order and its
\* Prefixes in ascending prefix order, whatever order the service answered in
\* and with or without directory markers in the listing.
C11_ListingSorted ==
  (res.op = "ListBlobs" /\ res.hasOut) =>
    /\ IsSortedNames(ItemKeys(res.out.items))
    /\ IsSortedNames(res.out.prefixes)

\* the blob p of st is a file: it is no directory marker, and no blob lies under p/
IsFileKey(st, p) ==
  /\ Has(st, p)
  /\ DirKey \notin DOMAIN st[p]
  /\ \A n \in DOMAIN st : ~HasPrefix(n, Append(p, Slash))

\* C12: a listing from its start whose prefix is the key of a file returns that
\* one item, under the file's key, and no prefix: neither a prefix entry nor a
\* key with a trailing "/" stands for the file.
C12_FileKeyListsItself ==
  (/\ res.op = "ListBlobs"
   /\ res.hasOut
   /\ res.in.token = 0
   /\ IsFileKey(store, res.in.prefix)) =>
    /\ ItemKeys(res.out.items) = <<res.in.prefix>>
    /\ res.out.prefixes = <<>>
    /\ \A i \in 1 .. Len(res.out.items) : ~HasSuffixSlash(res.out.items[i].key)

\* the file "a" was listed by its key with a delimiter, beside another blob and
\* with metadata of its own
C12_Witness ==
  /\ res.op = "ListBlobs"
  /\ res.hasOut
  /\ res.in.token = 0
  /\ res.in.delim
  /\ IsFileKey(store, res.in.prefix)
  /\ DOMAIN store[res.in.prefix] # {}
  /\ Cardinality(DOMAIN store) > 1
  /\ Len(res.out.items) = 1

\* the blob n of st is a plain blob: HeadBlob does not report it as a directory
IsPlainBlob(st, n) == Has(st, n) /\ ~HeadIsDirBlob(n, st[n])

\* C21: a DeleteBlob whose key ends in "/" leaves every plain blob of the
\* container in place, the one named by the key without the slash included, for
\* which HeadBlob of the key reports ENOENT.
C21_DirDeleteKeepsPlainBlob ==
  [][(Idle /\ res'.op = "DeleteBlob" /\ HasSuffixSlash(res'.in.key)) =>
       \A n \in DOMAIN store :
         IsPlainBlob(store, n) => (Has(store', n) /\ store'[n] = store[n])]_vars

\* the blobs the service answered to the call in: the blobs of its page of the
\* listing, which are the same in whatever order the page came
PageBlobs(st, ep, in) ==
  LET seg == CHOOSE s \in ServiceSegments(st, ep, in.prefix, in.delim, in.token,
                                          in.maxKeys) : TRUE
  IN {seg.blobItems[i] : i \in 1 .. Len(seg.blobItems)}

\* the names of the directory markers among them: the blobs that HeadBlob reports
\* with IsDirBlob
PageMarkers(st, ep, in) ==
  {b.name : b \in {x \in PageBlobs(st, ep, in) : HeadIsDirBlob(x.name, x.meta)}}

NoDuplicates(s) == \A i, j \in 1 .. Len(s) : i # j => s[i] # s[j]

\* C22: in the result of a ListBlobs with a delimiter every directory marker
\* among the blobs the service answered is in Prefixes as name + "/" and is no
\* item, neither under its name nor under name + "/", and no prefix is in
\* Prefixes twice.
C22_MarkersArePrefixes ==
  (res.op = "ListBlobs" /\ res.hasOut /\ res.in.delim) =>
    /\ \A n \in PageMarkers(store, endpoint, res.in) :
         /\ \E i \in 1 .. Len(res.out.prefixes) : res.out.prefixes[i] = Append(n, Slash)
         /\ \A i \in 1 .. Len(res.out.items) :
              res.out.items[i].key \notin {n, Append(n, Slash)}
    /\ NoDuplicates(res.out.prefixes)

KeySet(items) == {items[i].key : i \in 1 .. Len(items)}

\* the results ListBlobs can give for the page before the one asked by in: the
\* pages of the same listing, read from its start, that are truncated and whose
\* NextContinuationToken is the token of in
PagesBefore(st, ep, in) ==
  LET in0 == [in EXCEPT !.token = 0]
      outs == {ListBlobsOut(st, ep, in0, seg, "ok") :
                 seg \in ServiceSegments(st, ep, in.prefix, in.delim, 0, in.maxKeys)}
  IN {o.out : o \in {x \in outs : /\ x.err = "nil"
                                  /\ x.out.truncated
                                  /\ x.out.next = in.token}}

\* C23: when the listing of a prefix ending in "/" is read page by page, the
\* Items of a page and the Items of the page before it share no key, the entry
\* of the listed directory's own marker included.
C23_PagesShareNoKey ==
  (/\ res.op = "ListBlobs"
   /\ res.hasOut
   /\ HasSuffixSlash(res.in.prefix)
   /\ res.in.token > 0) =>
    \A first \in PagesBefore(store, endpoint, res.in) :
      KeySet(first.items) \cap KeySet(res.out.items) = {}

\* C24: a ListBlobs result without error has IsTruncated set exactly when its
\* NextContinuationToken is not nil, and the token is never the empty string;
\* a token that is returned lies behind the token the call was given and
\* before the end of the service's listing, so that following the tokens ends.
C24_TruncatedIffToken ==
  (res.op = "ListBlobs" /\ res.err = "nil" /\ res.hasOut) =>
    /\ res.out.truncated <=> res.out.next # 0
    /\ res.out.next # -1
    /\ res.out.truncated =>
         /\ res.out.next > res.in.token
         /\ res.out.next < Len(ServiceEntries(store, endpoint, res.in.prefix,
                                              res.in.delim))

\* a listing was followed from its truncated first page to a page with items
\* that is not truncated
C24_Witness ==
  /\ res.op = "ListBlobs"
  /\ res.err = "nil"
  /\ res.in.token > 0
  /\ ~res.out.truncated
  /\ Len(res.out.items) > 0
  /\ PagesBefore(store, endpoint, res.in) # {}

\* a listing presents the blob n as a directory: n is no item under its own
\* name, and n + "/" is an item or a prefix
PresentedAsDir(out, n) ==
  /\ n \notin KeySet(out.items)
  /\ \/ Append(n, Slash) \in KeySet(out.items)
     \/ \E i \in 1 .. Len(out.prefixes) : out.prefixes[i] = Append(n, Slash)

\* C25: ListBlobs presents a blob that the service answered as a directory, by
\* a key with a trailing "/" or by a prefix, exactly when HeadBlob of the blob
\* reports IsDirBlob, whatever the blob's metadata.
C25_SameDirBlobs ==
  (res.op = "ListBlobs" /\ res.hasOut) =>
    \A b \in PageBlobs(store, endpoint, res.in) :
      PresentedAsDir(res.out, b.name) <=> HeadBlobOut(store, b.name, "ok").out.isDir

\* the errors of a lookup that did not reach the blob: refreshToken failed, or
\* the request did
LookupFailures == {"EACCES"} \cup (ServiceOutcomes \ {"ok"})

\* C26: HeadBlob of a key with a trailing "/" returns no error only when the
\* blob named by the key without the slash exists and carries hdi_isfolder.
\* When that blob exists without the flag, the call returns ENOENT unless the
\* lookup itself failed; when it does not exist, the call returns the lookup's
\* error, ENOENT from the service or the lookup's failure, and no output.
C26_HeadOfDirKey ==
  (res.op = "HeadBlob" /\ HasSuffixSlash(res.in.key)) =>
    LET n == TrimLast(res.in.key)
    IN /\ res.err = "nil" => (Has(store, n) /\ DirKey \in DOMAIN store[n])
       /\ (Has(store, n) /\ DirKey \notin DOMAIN store[n]) =>
            IF res.hasOut THEN res.err = "ENOENT" ELSE res.err \in LookupFailures
       /\ ~Has(store, n) =>
            (~res.hasOut /\ res.err \in {"ENOENT"} \cup LookupFailures)

\* HeadBlob of "a/b/" has answered ENOENT because "a/b" is a plain blob, while
\* the container holds the directory marker "a"
C26_Witness ==
  /\ res.op = "HeadBlob"
  /\ res.in.key = <<"a", "/", "b", "/">>
  /\ res.err = "ENOENT"
  /\ Has(store, <<"a", "/", "b">>)
  /\ DirKey \notin DOMAIN store[<<"a", "/", "b">>]
  /\ Has(store, <<"a">>)
  /\ DirKey \in DOMAIN store[<<"a">>]

\* the service answered the call in with one blob, and its name is not longer
\* than the prefix
AnsweredPrefixBlob(st, ep, in) ==
  /\ Cardinality(PageBlobs(st, ep, in)) = 1
  /\ \A b \in PageBlobs(st, ep, in) : Len(b.name) <= Len(in.prefix)

\* C27: when ListBlobs is asked for a prefix ending in "/" and the service
\* answers with one blob whose name is not longer than the prefix, ListBlobs
\* returns no error and an empty result (no item, no prefix, not truncated, no
\* token), and has sent the listing request only, no HeadBlob.  (A call whose
\* one request failed was not answered.)
C27_PrefixIsBlobListsEmpty ==
  (/\ res.op = "ListBlobs"
   /\ res.requests > 0
   /\ (res.err = "nil" \/ res.requests > 1)
   /\ HasSuffixSlash(res.in.prefix)
   /\ AnsweredPrefixBlob(store, endpoint, res.in)) =>
    /\ res.err = "nil"
    /\ res.hasOut
    /\ res.out = EmptyListing
    /\ res.requests = 1

\* the listing of "a/" was answered with the file "a" alone, while the
\* container holds another blob
C27_Witness ==
  /\ res.op = "ListBlobs"
  /\ res.err = "nil"
  /\ res.in.prefix = <<"a", "/">>
  /\ AnsweredPrefixBlob(store, endpoint, res.in)
  /\ Has(store, <<"a">>)
  /\ Cardinality(DOMAIN store) > 1
  /\ res.out = EmptyListing

(***************************************************************************)
(* SpecMount: the inode graph, the flusher and the rename job              *)
(***************************************************************************)
RECURSIVE PathOf(_, _)
\* section 4.1: the ancestors' names, from the mount's root down to the inode
PathOf(n, i) ==
  IF Parent(i) = "root" THEN <<n[i].name>>
  ELSE Append(PathOf(n, Parent(i)), n[i].name)

\* section 4.1: the key of an inode's object: the path of a file, the path and
\* a final "/" for the marker of a directory
KeyOf(n, i) == IF i \in DirIds THEN Append(PathOf(n, i), Slash) ELSE PathOf(n, i)

\* the bucket, or the reference directory, with one entry written or removed
ObjPut(b, k, v) == [x \in DOMAIN b \cup {k} |-> IF x = k THEN v ELSE b[x]]
ObjRemove(b, k) == [x \in DOMAIN b \ {k} |-> b[x]]

\* mv in the reference directory: every path under old moves under new
Rebase(q, old, new) ==
  IF HasPrefix(q, old) THEN new \o SubSeq(q, Len(old) + 1, Len(q)) ELSE q
RefMove(ref, old, new) ==
  [q \in {Rebase(x, old, new) : x \in DOMAIN ref} |->
     ref[CHOOSE x \in DOMAIN ref : Rebase(x, old, new) = q]]

\* a rename job that moves only the renamed inode and its children
MoversShallow(n) ==
  {i \in Ids : /\ n[i].exists /\ n[i].at # NoKey /\ n[i].at # KeyOf(n, i)
               /\ (Parent(i) \in {"root", "D"} \/ n[i].name # FirstName(i))}

\* section 4.5: the keys a rename affects: every inode whose object is stored
\* under another key than the inode's
Movers(n) == {i \in Ids : n[i].exists /\ n[i].at # NoKey /\ n[i].at # KeyOf(n, i)}

\* no rename job is under way
NoRenameJob == Movers(mtInodes) = {} /\ mtCopied = {}

\* an evictor that takes every buffer
EvictableAny(st) == TRUE

\* section 4.2: Evict releases Clean buffers
Evictable(st) == st = "Clean"

\* an unlink that schedules no delete
UnlinkedForgets(at) == NoKey

\* section 4.1: Unlink schedules the DeleteBlob of the inode's object
UnlinkedAt(at) == at

\* section 4.4: the object a commit assembles from the parts, by part number
Assemble(parts) == [k \in 1 .. Cardinality(DOMAIN parts) |-> parts[k]]

\* section 4.1: mkdir; the marker is written by the flusher when the backend
\* requires directory markers
Mkdir(j) ==
  /\ mtPhase = "mounted"
  /\ ~mtInodes[j].exists
  /\ mtInodes[j].at = NoKey
  /\ IF Parent(j) = "root" THEN TRUE ELSE mtInodes[Parent(j)].exists
  /\ mtInodes' = [mtInodes EXCEPT ![j] =
                    [NoInode(j) EXCEPT !.exists = TRUE,
                                       !.state = IF mtCaps.markers THEN "Dirty"
                                                 ELSE "Clean"]]
  /\ mtRead' = NoRead
  /\ UNCHANGED <<mtFlight, mtCopied, mtBackend, mtCaps, mtPhase, mtRef, mtOthers>>

\* the flusher writes the marker of a new directory
FlushMarker(j) ==
  /\ mtPhase # "unmounted"
  /\ mtInodes[j].exists
  /\ mtInodes[j].state = "Dirty"
  /\ mtBackend' = ObjPut(mtBackend, KeyOf(mtInodes, j), NoData)
  /\ mtInodes' = [mtInodes EXCEPT ![j].state = "Clean", ![j].at = KeyOf(mtInodes, j)]
  /\ mtRead' = NoRead
  /\ UNCHANGED <<mtFlight, mtCopied, mtCaps, mtPhase, mtRef, mtOthers>>

\* sections 4.1, 4.2 and 4.4: create or overwrite a file with data, as the tests
\* do next to the same write into the reference directory.  A write that meets a
\* flush in flight makes that flush's ack stale.
Write(i, data) ==
  /\ mtPhase = "mounted"
  /\ mtInodes[Parent(i)].exists
  /\ \/ mtInodes[i].exists
     \/ mtInodes[i].at = NoKey /\ mtInodes[i].state # "Flushing"
  /\ mtInodes' = [mtInodes EXCEPT ![i].exists = TRUE,
                                  ![i].data = data,
                                  ![i].cached = TRUE,
                                  ![i].moved = FALSE,
                                  ![i].state = IF @ = "Flushing" THEN @ ELSE "Dirty"]
  /\ mtFlight' = IF mtInodes[i].state = "Flushing"
                 THEN [mtFlight EXCEPT ![i].stale = TRUE] ELSE mtFlight
  /\ mtRef' = ObjPut(mtRef, PathOf(mtInodes, i), data)
  /\ mtRead' = NoRead
  /\ UNCHANGED <<mtCopied, mtBackend, mtCaps, mtPhase, mtOthers>>

\* section 4.4: the flusher takes the file's dirty data (and begins a multipart
\* upload when the data is above the threshold)
FlushStart(i) ==
  /\ mtPhase # "unmounted"
  /\ mtInodes[i].state = "Dirty"
  /\ i \notin Movers(mtInodes) \cup mtCopied
  /\ mtInodes' = [mtInodes EXCEPT ![i].state = "Flushing"]
  /\ mtFlight' = [mtFlight EXCEPT ![i] =
                    [data |-> mtInodes[i].data, key |-> KeyOf(mtInodes, i),
                     parts |-> <<>>, stale |-> FALSE]]
  /\ mtRead' = NoRead
  /\ UNCHANGED <<mtCopied, mtBackend, mtCaps, mtPhase, mtRef, mtOthers>>

\* section 4.4: one part of a multipart upload is acknowledged, in any order
FlushPart(i, k) ==
  /\ mtInodes[i].state = "Flushing"
  /\ Len(mtFlight[i].data) > 1
  /\ k \in 1 .. Len(mtFlight[i].data)
  /\ k \notin DOMAIN mtFlight[i].parts
  /\ mtFlight' = [mtFlight EXCEPT ![i].parts =
                    [x \in DOMAIN @ \cup {k} |-> mtFlight[i].data[x]]]
  /\ mtRead' = NoRead
  /\ UNCHANGED <<mtInodes, mtCopied, mtBackend, mtCaps, mtPhase, mtRef, mtOthers>>

\* section 4.4: the single PutBlob, or the commit of the multipart upload, is
\* acknowledged; a stale ack leaves the buffers Dirty
FlushAck(i) ==
  /\ mtInodes[i].state = "Flushing"
  /\ \/ Len(mtFlight[i].data) = 1
     \/ DOMAIN mtFlight[i].parts = 1 .. Len(mtFlight[i].data)
  /\ mtBackend' = ObjPut(mtBackend, mtFlight[i].key,
                         IF Len(mtFlight[i].data) = 1 THEN mtFlight[i].data
                         ELSE Assemble(mtFlight[i].parts))
  /\ mtInodes' = [mtInodes EXCEPT
                    ![i].at = mtFlight[i].key,
                    ![i].state = IF mtFlight[i].stale /\ mtInodes[i].exists
                                 THEN "Dirty" ELSE "Clean"]
  /\ mtFlight' = [mtFlight EXCEPT ![i] = NoFlight]
  /\ mtRead' = NoRead
  /\ UNCHANGED <<mtCopied, mtCaps, mtPhase, mtRef, mtOthers>>

\* section 4.2: eviction drops the data of a file's buffers
Evict(i) ==
  /\ mtPhase = "mounted"
  /\ mtInodes[i].exists
  /\ mtInodes[i].cached
  /\ Evictable(mtInodes[i].state)
  /\ mtInodes' = [mtInodes EXCEPT ![i].cached = FALSE, ![i].data = NoData]
  /\ mtRead' = NoRead
  /\ UNCHANGED <<mtFlight, mtCopied, mtBackend, mtCaps, mtPhase, mtRef, mtOthers>>

\* what GetBlob of the inode's object answers
Fetch(i) ==
  IF mtInodes[i].at \in DOMAIN mtBackend THEN mtBackend[mtInodes[i].at]
  ELSE <<"ENOENT">>

\* section 4.2: a read of the whole file: from the buffers, or from the backend
\* when the buffers hold no data; the tests compare it with the reference file
Read(i) ==
  /\ mtPhase = "mounted"
  /\ mtInodes[i].exists
  /\ mtRead' = [valid |-> TRUE,
                data |-> IF mtInodes[i].cached THEN mtInodes[i].data ELSE Fetch(i),
                expect |-> mtRef[PathOf(mtInodes, i)],
                fetched |-> ~mtInodes[i].cached]
  /\ mtInodes' = [mtInodes EXCEPT ![i].cached = TRUE, ![i].data = mtRead'.data]
  /\ UNCHANGED <<mtFlight, mtCopied, mtBackend, mtCaps, mtPhase, mtRef, mtOthers>>

\* section 4.1: unlink of a file, next to rm in the reference directory
Unlink(i) ==
  /\ mtPhase = "mounted"
  /\ mtInodes[i].exists
  /\ i \notin Movers(mtInodes) \cup mtCopied
  /\ mtInodes' = [mtInodes EXCEPT ![i] =
                    [NoInode(i) EXCEPT
                       !.state = IF mtInodes[i].state = "Flushing" THEN "Flushing"
                                 ELSE "Clean",
                       !.at = UnlinkedAt(mtInodes[i].at)]]
  /\ mtRef' = ObjRemove(mtRef, PathOf(mtInodes, i))
  /\ mtRead' = NoRead
  /\ UNCHANGED <<mtFlight, mtCopied, mtBackend, mtCaps, mtPhase, mtOthers>>

\* section 4.1: rmdir of a directory without entries
Rmdir(j) ==
  /\ mtPhase = "mounted"
  /\ mtInodes[j].exists
  /\ \A c \in Ids : Parent(c) = j => ~mtInodes[c].exists
  /\ j \notin Movers(mtInodes) \cup mtCopied
  /\ mtInodes' = [mtInodes EXCEPT ![j] =
                    [NoInode(j) EXCEPT !.at = UnlinkedAt(mtInodes[j].at)]]
  /\ mtRead' = NoRead
  /\ UNCHANGED <<mtFlight, mtCopied, mtBackend, mtCaps, mtPhase, mtRef, mtOthers>>

\* the DeleteBlob scheduled by Unlink or Rmdir
DeleteJob(i) ==
  /\ mtPhase # "unmounted"
  /\ ~mtInodes[i].exists
  /\ mtInodes[i].at # NoKey
  /\ mtInodes[i].state # "Flushing"
  /\ mtBackend' = ObjRemove(mtBackend, mtInodes[i].at)
  /\ mtInodes' = [mtInodes EXCEPT ![i].at = NoKey]
  /\ mtRead' = NoRead
  /\ UNCHANGED <<mtFlight, mtCopied, mtCaps, mtPhase, mtRef, mtOthers>>

\* section 4.5: rename is applied to the inode graph at once; the tests rename
\* a file inside its directory (mv file file.tmp), the reference file following
RenameFile(i) ==
  /\ mtPhase = "mounted"
  /\ mtInodes[i].exists
  /\ NoRenameJob
  /\ mtInodes' = [mtInodes EXCEPT ![i].name = OtherName(@), ![i].moved = TRUE]
  /\ mtRef' = RefMove(mtRef, PathOf(mtInodes, i), PathOf(mtInodes', i))
  /\ mtRead' = NoRead
  /\ UNCHANGED <<mtFlight, mtCopied, mtBackend, mtCaps, mtPhase, mtOthers>>

\* section 4.5: rename of a directory (mv nested nested3): every file below it
\* is renamed with it
RenameDir(j) ==
  /\ mtPhase = "mounted"
  /\ mtInodes[j].exists
  /\ NoRenameJob
  /\ mtInodes' = [i \in Ids |->
                    IF i = j THEN [mtInodes[i] EXCEPT !.name = OtherName(@)]
                    ELSE IF i \in FileIds /\ mtInodes[i].exists
                    THEN [mtInodes[i] EXCEPT !.moved = TRUE]
                    ELSE mtInodes[i]]
  /\ mtRef' = RefMove(mtRef, PathOf(mtInodes, j), PathOf(mtInodes', j))
  /\ mtRead' = NoRead
  /\ UNCHANGED <<mtFlight, mtCopied, mtBackend, mtCaps, mtPhase, mtOthers>>

\* section 4.5, tier 1: the backend renames the object of an affected key
ServerRename(m) ==
  /\ mtPhase # "unmounted"
  /\ mtCaps.mode = "rename"
  /\ m \in Movers(mtInodes)
  /\ mtInodes[m].state # "Flushing"
  /\ mtBackend' = ObjRemove(ObjPut(mtBackend, KeyOf(mtInodes, m),
                                   mtBackend[mtInodes[m].at]), mtInodes[m].at)
  /\ mtInodes' = [mtInodes EXCEPT ![m].at = KeyOf(mtInodes, m)]
  /\ mtRead' = NoRead
  /\ UNCHANGED <<mtFlight, mtCopied, mtCaps, mtPhase, mtRef, mtOthers>>

\* section 4.5, tier 3: CopyBlob of an affected key
CopyStep(m) ==
  /\ mtPhase # "unmounted"
  /\ mtCaps.mode = "copy"
  /\ m \in Movers(mtInodes) \ mtCopied
  /\ mtInodes[m].state # "Flushing"
  /\ mtBackend' = ObjPut(mtBackend, KeyOf(mtInodes, m), mtBackend[mtInodes[m].at])
  /\ mtCopied' = mtCopied \cup {m}
  /\ mtRead' = NoRead
  /\ UNCHANGED <<mtInodes, mtFlight, mtCaps, mtPhase, mtRef, mtOthers>>

\* section 4.5: only after all copies succeed, the sources are deleted
CopiesConfirmed == Movers(mtInodes) \subseteq mtCopied

DeleteStep(m) ==
  /\ mtPhase # "unmounted"
  /\ mtCaps.mode = "copy"
  /\ m \in mtCopied
  /\ CopiesConfirmed
  /\ mtBackend' = ObjRemove(mtBackend, mtInodes[m].at)
  /\ mtInodes' = [mtInodes EXCEPT ![m].at = KeyOf(mtInodes, m)]
  /\ mtCopied' = mtCopied \ {m}
  /\ mtRead' = NoRead
  /\ UNCHANGED <<mtFlight, mtCaps, mtPhase, mtRef, mtOthers>>

\* section 5: everything the unmount waits for is done: no dirty or flushing
\* data, no rename job, no scheduled delete
UnmountWaits ==
  /\ \A i \in Ids : mtInodes[i].state = "Clean"
  /\ \A i \in Ids : ~mtInodes[i].exists => mtInodes[i].at = NoKey
  /\ NoRenameJob

UnmountBegin ==
  /\ mtPhase = "mounted"
  /\ mtPhase' = "unmounting"
  /\ mtRead' = NoRead
  /\ UNCHANGED <<mtInodes, mtFlight, mtCopied, mtBackend, mtCaps, mtRef, mtOthers>>

UnmountDone ==
  /\ mtPhase = "unmounting"
  /\ UnmountWaits
  /\ mtPhase' = "unmounted"
  /\ mtRead' = NoRead
  /\ UNCHANGED <<mtInodes, mtFlight, mtCopied, mtBackend, mtCaps, mtRef, mtOthers>>

\* the modes the tests mount in (--no-instant-rename or not), over a backend
\* that requires directory markers or does not
InitMount ==
  /\ CopyInit /\ DeleteInit /\ BlobIdle /\ ClusterIdle /\ DriverIdle
  /\ mtInodes = [i \in Ids |-> NoInode(i)]
  /\ mtFlight = [i \in FileIds |-> NoFlight]
  /\ mtCopied = {}
  /\ mtBackend = NoObjects
  /\ mtCaps \in [mode : {"copy", "rename"}, markers : BOOLEAN]
  /\ mtPhase = "mounted"
  /\ mtRead = NoRead
  /\ mtRef = NoObjects

NextMount ==
  \/ \E j \in DirIds : Mkdir(j)
  \/ \E j \in DirIds : FlushMarker(j)
  \/ \E i \in FileIds, data \in Contents : Write(i, data)
  \/ \E i \in FileIds : FlushStart(i)
  \/ \E i \in FileIds : \E k \in 1 .. Len(mtFlight[i].data) : FlushPart(i, k)
  \/ \E i \in FileIds : FlushAck(i)
  \/ \E i \in FileIds : Evict(i)
  \/ \E i \in FileIds : Read(i)
  \/ \E i \in FileIds : Unlink(i)
  \/ \E j \in DirIds : Rmdir(j)
  \/ \E i \in Ids : DeleteJob(i)
  \/ \E i \in FileIds : RenameFile(i)
  \/ RenameDir("D")
  \/ \E m \in Ids : ServerRename(m)
  \/ \E m \in Ids : CopyStep(m)
  \/ \E m \in Ids : DeleteStep(m)
  \/ UnmountBegin
  \/ UnmountDone

SpecMount == InitMount /\ [][NextMount]_vars

(***************************************************************************)
(* SpecMount: properties                                                   *)
(***************************************************************************)
\* the keys of the files, and of the directories' markers, of the inode graph
FileKeys == {KeyOf(mtInodes, i) : i \in {x \in FileIds : mtInodes[x].exists}}
MarkerKeys == {KeyOf(mtInodes, j) : j \in {x \in DirIds : mtInodes[x].exists}}

\* the object under the file's key has the bytes of the reference file
ObjectHasBytes(i) ==
  /\ KeyOf(mtInodes, i) \in DOMAIN mtBackend
  /\ PathOf(mtInodes, i) \in DOMAIN mtRef
  /\ mtBackend[KeyOf(mtInodes, i)] = mtRef[PathOf(mtInodes, i)]

\* C3: once the filesystem is unmounted, every file that was renamed, itself or
\* with a directory above it, in copy mode or in rename mode, has under its new
\* key an object with the bytes that were written under the old name.
C3_RenamedBytesAtNewKey ==
  mtPhase = "unmounted" =>
    \A i \in FileIds : (mtInodes[i].exists /\ mtInodes[i].moved) => ObjectHasBytes(i)

\* copy mode with markers: the file was renamed with its directory's parent and
\* holds a multi-part content at the unmount
C3_Witness ==
  /\ mtPhase = "unmounted"
  /\ mtCaps = [mode |-> "copy", markers |-> TRUE]
  /\ mtInodes["F"].exists
  /\ mtInodes["F"].moved
  /\ mtInodes["D"].name = "e"
  /\ mtInodes["F"].name = "f"
  /\ Len(mtInodes["F"].data) = 2

\* C4: a read through the mount returns the data last written to the file
\* through the mount (the content of the reference file), whatever the file's
\* name and size and whether the write created or overwrote the file.
C4_ReadReturnsWritten == mtRead.valid => mtRead.data = mtRead.expect

\* a multi-part content was read back from the backend after its eviction
C4_Witness ==
  /\ mtRead.valid
  /\ mtRead.fetched
  /\ Len(mtRead.data) = 2
  /\ mtInodes["F"].name = "g"

\* C6, as stated: after the unmount the keys of the bucket are the keys of the
\* files, and every file's object has the file's bytes.
C6_KeySetIsFileKeys ==
  mtPhase = "unmounted" =>
    /\ DOMAIN mtBackend = FileKeys
    /\ \A i \in FileIds : mtInodes[i].exists => ObjectHasBytes(i)

\* C6, amended: after the unmount the keys of the bucket are the keys of the
\* files and, on a backend that requires directory markers, the marker keys of
\* the directories; every file's object has the file's bytes.
C6_KeySetIsFilesAndMarkers ==
  mtPhase = "unmounted" =>
    /\ DOMAIN mtBackend = FileKeys \cup (IF mtCaps.markers THEN MarkerKeys ELSE {})
    /\ \A i \in FileIds : mtInodes[i].exists => ObjectHasBytes(i)

\* an unmount with a file and both directories' markers in the bucket
C6_Witness ==
  /\ mtPhase = "unmounted"
  /\ mtCaps.markers
  /\ mtInodes["F"].exists
  /\ Cardinality(DOMAIN mtBackend) = 3

(***************************************************************************)
(* SpecCluster: forwarding to the owner, invalidation, listing             *)
(***************************************************************************)
\* the operations of the random test and the inode whose owner applies each: the
\* parent for a change of its child map, the file for an overwrite.  rm -rf
\* issues "remove" and "rmdir" from the leaves up.
ClKinds == {"create", "overwrite", "remove", "mkdir", "rmdir"}
ClTarget(kind, c) == IF kind = "overwrite" THEN c ELSE ClParent(c)

\* what the test may do next, given the reference directory
ClAllowed(kind, c) ==
  /\ ClParent(c) = "R" \/ ClPath(ClParent(c)) \in clRef
  /\ kind = "create" => c \in ClFiles /\ ClPath(c) \notin clRef
  /\ kind = "mkdir" => c \in ClDirs /\ ClPath(c) \notin clRef
  /\ kind \in {"overwrite", "remove"} => c \in ClFiles /\ ClPath(c) \in clRef
  /\ kind = "rmdir" =>
       /\ c \in ClDirs /\ ClPath(c) \in clRef
       /\ \A x \in ClChildren(c) : ClPath(x) \notin clRef

\* the reference directory after the operation
ClRefAfter(ref, kind, c) ==
  IF kind \in {"create", "mkdir"} THEN ref \cup {ClPath(c)}
  ELSE IF kind \in {"remove", "rmdir"} THEN ref \ {ClPath(c)}
  ELSE ref

\* the test runs an operation on the mount of node n, next to the same
\* operation on the reference directory; the node forwards it to the owner
ClBegin(n, kind, c) ==
  /\ clOp.stage = "idle"
  /\ ClAllowed(kind, c)
  /\ clOp' = [kind |-> kind, via |-> n, target |-> ClTarget(kind, c), child |-> c,
              stage |-> "request", pending |-> {}]
  /\ clRef' = ClRefAfter(clRef, kind, c)
  /\ clList' = [m \in Nodes |-> NotListed]
  /\ UNCHANGED <<clKids, clData, clCache, clOthers>>

\* an owner that tells no peer
InvalidatesNone(o) == {}

\* section 4.7: the owner broadcasts the invalidation: to every other node
InvalidationTargets(o) == Nodes \ {o}

\* section 4.7: the owner applies the change and broadcasts the invalidation
ClOwnerApply ==
  /\ clOp.stage = "request"
  /\ clKids' = IF clOp.kind \in {"create", "mkdir"}
               THEN [clKids EXCEPT ![clOp.target] = @ \cup {clOp.child}]
               ELSE IF clOp.kind \in {"remove", "rmdir"}
               THEN [clKids EXCEPT ![clOp.target] = @ \ {clOp.child}]
               ELSE clKids
  /\ clData' = IF clOp.kind = "create" THEN [clData EXCEPT ![clOp.child] = "new"]
               ELSE IF clOp.kind = "overwrite"
               THEN [clData EXCEPT ![clOp.child] = IF @ = "new" THEN "over" ELSE "new"]
               ELSE IF clOp.kind = "remove" THEN [clData EXCEPT ![clOp.child] = "none"]
               ELSE clData
  /\ clOp' = [clOp EXCEPT !.stage = "invalidate",
                          !.pending = InvalidationTargets(Owner(clOp.target))]
  /\ UNCHANGED <<clCache, clList, clRef, clOthers>>

\* a peer receives the invalidation and drops what it cached of the inode
ClInvalidate(m) ==
  /\ clOp.stage = "invalidate"
  /\ m \in clOp.pending
  /\ clCache' = IF clOp.target \in ClDirs
                THEN [clCache EXCEPT ![m][clOp.target] = NoCache]
                ELSE clCache
  /\ clOp' = [clOp EXCEPT !.pending = @ \ {m}]
  /\ UNCHANGED <<clKids, clData, clList, clRef, clOthers>>

\* the owner answers once its peers have the invalidation, and the operation
\* returns on the node it was issued on
ClReply ==
  /\ clOp.stage = "invalidate"
  /\ clOp.pending = {}
  /\ clOp' = [clOp EXCEPT !.stage = "idle"]
  /\ UNCHANGED <<clKids, clData, clCache, clList, clRef, clOthers>>

\* the child map of directory d as node n sees it: its own when it owns d, the
\* cached listing when it holds one, otherwise the owner's answer
KidsSeen(n, d) ==
  IF Owner(d) = n THEN clKids[d]
  ELSE IF clCache[n][d].valid THEN clCache[n][d].kids
  ELSE clKids[d]

RECURSIVE Walk(_, _)
\* find below directory d on node n
Walk(n, d) == KidsSeen(n, d) \cup UNION {Walk(n, c) : c \in KidsSeen(n, d) \cap ClDirs}

\* the test's find on the mount of node n: the paths it prints; the listings it
\* fetched from owners stay cached
ClFind(n) ==
  /\ clOp.stage = "idle"
  /\ ~clList[n].listed
  /\ clList' = [clList EXCEPT ![n] =
                  [listed |-> TRUE, paths |-> {ClPath(i) : i \in Walk(n, "R")}]]
  /\ clCache' = [clCache EXCEPT ![n] =
                   [d \in ClDirs |->
                      IF d \in ({"R"} \cup Walk(n, "R")) /\ Owner(d) # n
                      THEN [valid |-> TRUE, kids |-> KidsSeen(n, d)]
                      ELSE clCache[n][d]]]
  /\ UNCHANGED <<clKids, clData, clOp, clRef, clOthers>>

InitCluster ==
  /\ CopyInit /\ DeleteInit /\ BlobIdle /\ MountIdle /\ DriverIdle
  /\ clKids = [d \in ClDirs |-> {}]
  /\ clData = [f \in ClFiles |-> "none"]
  /\ clCache = [n \in Nodes |-> [d \in ClDirs |-> NoCache]]
  /\ clOp = NoOp
  /\ clList = [n \in Nodes |-> NotListed]
  /\ clRef = {}

NextCluster ==
  \/ \E n \in Nodes, kind \in ClKinds, c \in (ClDirs \cup ClFiles) \ {"R"} :
       ClBegin(n, kind, c)
  \/ ClOwnerApply
  \/ \E m \in Nodes : ClInvalidate(m)
  \/ ClReply
  \/ \E n \in Nodes : ClFind(n)

SpecCluster == InitCluster /\ [][NextCluster]_vars

ServiceCodeErrno(code) ==
  CASE code = "BlobAlreadyExists" -> "EACCES"
    [] code = "BlobNotFound" -> "ENOENT"
    [] code = "ContainerAlreadyExists" -> "EEXIST"
    [] code = "ContainerBeingDeleted" -> "EAGAIN"
    [] code = "ContainerDisabled" -> "EACCES"
    [] code = "ContainerNotFound" -> "ENODEV"
    [] code = "CopyAcrossAccountsNotSupported" -> "EINVAL"
    [] code = "SourceConditionNotMet" -> "EINVAL"
    [] code = "SystemInUse" -> "EAGAIN"
    [] code = "TargetConditionNotMet" -> "EINVAL"
    [] code = "BlobBeingRehydrated" -> "EAGAIN"
    [] code = "BlobArchived" -> "EINVAL"
    [] code = "AccountBeingCreated" -> "EAGAIN"
    [] code = "AuthenticationFailed" -> "EACCES"
    [] code = "ConditionNotMet" -> "EBUSY"
    [] code = "InternalError" -> "EAGAIN"
    [] code = "InvalidAuthenticationInfo" -> "EACCES"
    [] code = "OperationTimedOut" -> "EAGAIN"
    [] code = "ResourceNotFound" -> "ENOENT"
    [] code = "ServerBusy" -> "EAGAIN"
    [] code = "AuthorizationFailure" -> "EACCES"
    [] OTHER -> "default"

\* line 399: mapHttpError of the response's status code, an errno or nil
mapHttpError(err) == IF err.http = "nil" THEN NilErr ELSE Errno(err.http)

\* lines 349-410
mapAZBError(err) ==
  IF err.kind = "nil" THEN NilErr
  ELSE IF err.kind = "storage"
  THEN IF ServiceCodeErrno(err.code) # "default"
       THEN Errno(ServiceCodeErrno(err.code))
       ELSE IF mapHttpError(err) # NilErr THEN mapHttpError(err) ELSE err
  ELSE err

\* the operations that return mapAZBError of their request's error (lines 441,
\* 515, 538, 649, 713, 727, 754, 808, 847, 890, 920, 941, 954)
MappingOps ==
  {"HeadBlob", "ListBlobs", "DeleteBlob", "CopyBlob", "GetBlob", "PutBlob",
   "MultipartBlobAdd", "MultipartBlobCopy", "MultipartBlobCommit", "RemoveBucket",
   "MakeBucket"}

\* the service codes of the switch, and some it has no case for
SwitchCodes ==
  {"BlobAlreadyExists", "BlobNotFound", "ContainerAlreadyExists",
   "ContainerBeingDeleted", "ContainerDisabled", "ContainerNotFound",
   "CopyAcrossAccountsNotSupported", "SourceConditionNotMet", "SystemInUse",
   "TargetConditionNotMet", "BlobBeingRehydrated", "BlobArchived",
   "AccountBeingCreated", "AuthenticationFailed", "ConditionNotMet", "InternalError",
   "InvalidAuthenticationInfo", "OperationTimedOut", "ResourceNotFound", "ServerBusy",
   "AuthorizationFailure"}
DefaultCodes == {"InvalidRange", "LeaseIdMissing", "InsufficientAccountPermissions"}
HttpErrnos == {"EINVAL", "EACCES", "ENOENT", "EAGAIN", "nil"}

\* the errors a request of the SDK ends with
RequestErrors ==
  {NilErr}
  \cup {StorageError(c, h) : c \in SwitchCodes \cup DefaultCodes, h \in HttpErrnos}
  \cup {OtherError(w) : w \in {"transport", "context canceled"}}

\* "if err != nil { return nil, mapAZBError(err) }" behind the request of op
Request(op, err) ==
  /\ erOp = "none"
  /\ erOp' = op
  /\ erErr' = err
  /\ erRet' = IF err # NilErr THEN mapAZBError(err) ELSE NilErr
  /\ UNCHANGED erOthers

\* the caller takes the result
ErrorReturn ==
  /\ erOp # "none"
  /\ erOp' = "none"
  /\ erErr' = NilErr
  /\ erRet' = NilErr
  /\ UNCHANGED erOthers

InitError ==
  /\ CopyInit /\ DeleteInit /\ BlobIdle /\ MountIdle /\ ClusterIdle
  /\ ErrorInit /\ MultiIdle /\ TokenIdle /\ BlockIdInit

NextError ==
  \/ \E op \in MappingOps, err \in RequestErrors : Request(op, err)
  \/ ErrorReturn

SpecError == InitError /\ [][NextError]_vars

NotFoundCodes == {"BlobNotFound", "ResourceNotFound", "ContainerNotFound"}
AuthCodes == {"AuthenticationFailed", "InvalidAuthenticationInfo", "AuthorizationFailure"}
RetryCodes ==
  {"ServerBusy", "OperationTimedOut", "InternalError", "AccountBeingCreated",
   "ContainerBeingDeleted", "BlobBeingRehydrated"}
ErrIsCode(err, codes) == err.kind = "storage" /\ err.code \in codes

\* C13: an operation whose request failed returns an errno: ENOENT for the
\* not-found service codes, EACCES for the authentication and authorization
\* failures, EAGAIN for the busy, timeout, internal-error and being-created,
\* -deleted, -rehydrated codes; nil maps to nil, and no error of the storage
\* service is returned as it came.
C13_ErrorsMapped ==
  /\ mapAZBError(NilErr) = NilErr
  /\ (erOp # "none" /\ erErr # NilErr) =>
       /\ erRet.kind = "errno"
       /\ ErrIsCode(erErr, NotFoundCodes) => erRet = Errno("ENOENT")
       /\ ErrIsCode(erErr, AuthCodes) => erRet = Errno("EACCES")
       /\ ErrIsCode(erErr, RetryCodes) => erRet = Errno("EAGAIN")

(***************************************************************************)
(* SpecMulti: multipart uploads onto block blobs                           *)
(***************************************************************************)
RECURSIVE BlocksData(_)
\* the bytes of a blob: its committed blocks in the order of its block list
BlocksData(blocks) ==
  IF blocks = <<>> THEN <<>> ELSE Head(blocks).data \o BlocksData(Tail(blocks))

\* lines 439-463, 751-772: what HeadBlob and GetBlob find at a key
Readable(o) ==
  IF o.exists
  THEN [err |-> "nil", data |-> BlocksData(o.blocks),
        meta |-> MetaDelete(PMetadata(o.meta), DirKey)]
  ELSE [err |-> "ENOENT", data |-> <<>>, meta |-> NoMeta]

\* a service that appends a staged block to the blob at once
StageBlockAppends(blobs, staged, key, id, body) ==
  [blobs |-> [blobs EXCEPT ![key] =
                 [exists |-> TRUE,
                  blocks |-> Append(@.blocks, [id |-> id, data |-> body]),
                  meta |-> @.meta]],
   staged |-> staged]

\* lines 845-846, 886-888: StageBlock and StageBlockFromURL put an uncommitted
\* block under the id, in place of an uncommitted block of that id
StageBlock(blobs, staged, key, id, body) ==
  [blobs |-> blobs,
   staged |-> [staged EXCEPT ![key][id] = [staged |-> TRUE, data |-> body]]]

\* the block an id of a block list stands for: the uncommitted block of that
\* id, else the committed one
CommittedWithId(o, id) == {j \in 1 .. Len(o.blocks) : o.blocks[j].id = id}
BlockKnown(o, st, id) == st[id].staged \/ CommittedWithId(o, id) # {}
BlockData(o, st, id) ==
  IF st[id].staged THEN st[id].data
  ELSE o.blocks[CHOOSE j \in CommittedWithId(o, id) : TRUE].data

\* lines 914-917: CommitBlockList makes the listed blocks the blob, with the
\* metadata given, and drops the blob's other uncommitted blocks
CommitBlockList(blobs, staged, key, ids, metadata) ==
  [blobs |-> [blobs EXCEPT ![key] =
                 [exists |-> TRUE,
                  blocks |-> [j \in 1 .. Len(ids) |->
                                [id |-> ids[j],
                                 data |-> BlockData(blobs[key], staged[key], ids[j])]],
                  meta |-> metadata]],
   staged |-> [staged EXCEPT ![key] = [id \in BlockIds |-> NoBlock]]]

\* the outcome of a call apart from the container's state: refreshToken failed,
\* or the request failed, or neither
MuOutcomes == {"ok", "refresh", "EAGAIN"}
MuCall(op, oc, err) ==
  [op |-> op,
   err |-> IF oc = "refresh" THEN "EACCES" ELSE IF oc = "EAGAIN" THEN "EAGAIN" ELSE err,
   requests |-> IF oc = "refresh" THEN 0 ELSE 1]

\* lines 821-832
MultipartBlobBegin(u, key, metadata) ==
  /\ muUp[u].state = "none"
  /\ muUp' = [muUp EXCEPT ![u] = [state |-> "open", key |-> key, meta |-> metadata,
                                  parts |-> [p \in MuParts |-> NoPart]]]
  /\ muRes' = [op |-> "MultipartBlobBegin", err |-> "nil", requests |-> 0]
  /\ muCommit' = NoCommit
  /\ UNCHANGED <<muBlob, muStaged, muOthers>>

\* lines 834-853; the caller keeps the PartId returned in Commit.Parts
MultipartBlobAdd(u, p, body, oc) ==
  LET s == StageBlock(muBlob, muStaged, muUp[u].key, BlockId(u, p), body)
  IN
  /\ muUp[u].state = "open"
  /\ muRes' = MuCall("MultipartBlobAdd", oc, "nil")
  /\ muCommit' = NoCommit
  /\ IF oc = "ok"
     THEN /\ muBlob' = s.blobs
          /\ muStaged' = s.staged
          /\ muUp' = [muUp EXCEPT ![u].parts[p] = BlockId(u, p)]
     ELSE UNCHANGED <<muBlob, muStaged, muUp>>
  /\ UNCHANGED muOthers

\* lines 855-896: the part is size bytes of the blob src, from offset on (a
\* range inside the blob when there is one)
MultipartBlobCopy(u, p, src, offset, size, oc) ==
  LET body == SubSeq(BlocksData(muBlob[src].blocks), offset + 1, offset + size)
      s == StageBlock(muBlob, muStaged, muUp[u].key, BlockId(u, p), body)
      found == muBlob[src].exists
  IN
  /\ muUp[u].state = "open"
  /\ found => offset + size <= Len(BlocksData(muBlob[src].blocks))
  /\ muRes' = MuCall("MultipartBlobCopy", oc, IF found THEN "nil" ELSE "ENOENT")
  /\ muCommit' = NoCommit
  /\ IF oc = "ok" /\ found
     THEN /\ muBlob' = s.blobs
          /\ muStaged' = s.staged
          /\ muUp' = [muUp EXCEPT ![u].parts[p] = BlockId(u, p)]
     ELSE UNCHANGED <<muBlob, muStaged, muUp>>
  /\ UNCHANGED muOthers

\* lines 898-901
MultipartBlobAbort(u) ==
  /\ muUp[u].state = "open"
  /\ muUp' = [muUp EXCEPT ![u].state = "aborted"]
  /\ muRes' = [op |-> "MultipartBlobAbort", err |-> "nil", requests |-> 0]
  /\ muCommit' = NoCommit
  /\ UNCHANGED <<muBlob, muStaged, muOthers>>

\* a driver that commits every part the upload has
CommitPartsAll(parts, numParts) == SelectSeq(parts, LAMBDA x : x # NoPart)

\* lines 910-914: the block list, parts[i] = *param.Parts[i] for every i below
\* NumParts
CommitParts(parts, numParts) == [j \in 1 .. numParts |-> parts[j]]

\* a driver that hands the request's error on as it came
CommitErrorRaw(reqErr) == reqErr

\* lines 919-921: the error MultipartBlobCommit returns for its request's error
CommitError(reqErr) == mapAZBError(reqErr)

\* what the CommitBlockList request ends with: the service is busy, or it does
\* not know an id of the block list (status 400), or it has committed the list
CommitRequestError(oc, known) ==
  IF oc = "EAGAIN" THEN StorageError("ServerBusy", "EAGAIN")
  ELSE IF ~known THEN StorageError("InvalidBlockList", "EINVAL")
  ELSE NilErr

\* lines 903-927; numParts is param.NumParts, and the parts below it are set
MultipartBlobCommit(u, numParts, oc) ==
  LET key == muUp[u].key
      ids == CommitParts(muUp[u].parts, numParts)
      known == \A j \in 1 .. Len(ids) : BlockKnown(muBlob[key], muStaged[key], ids[j])
      reqErr == CommitRequestError(oc, known)
      c == CommitBlockList(muBlob, muStaged, key, ids, nilMetadata(muUp[u].meta))
  IN
  /\ muUp[u].state = "open"
  /\ \A j \in 1 .. numParts : muUp[u].parts[j] # NoPart
  /\ muRes' = MuCall("MultipartBlobCommit", oc, IF known THEN "nil" ELSE "EINVAL")
  /\ muCommit' = IF oc = "refresh"
                 THEN [NoCommit EXCEPT !.u = u, !.ret = Errno("EACCES")]
                 ELSE [u |-> u, numParts |-> numParts, sent |-> TRUE, ids |-> ids,
                       reqErr |-> reqErr,
                       ret |-> IF reqErr # NilErr THEN CommitError(reqErr) ELSE NilErr,
                       hasOut |-> reqErr = NilErr]
  /\ IF oc = "ok" /\ known
     THEN /\ muBlob' = c.blobs
          /\ muStaged' = c.staged
          /\ muUp' = [muUp EXCEPT ![u].state = "committed"]
     ELSE UNCHANGED <<muBlob, muStaged, muUp>>
  /\ UNCHANGED muOthers

\* line 899: the server garbage collects the blocks of an upload given up
ServiceCollects(u, p) ==
  /\ muUp[u].state = "aborted"
  /\ muStaged[muUp[u].key][BlockId(u, p)].staged
  /\ muStaged' = [muStaged EXCEPT ![muUp[u].key][BlockId(u, p)] = NoBlock]
  /\ muRes' = NoCall
  /\ muCommit' = NoCommit
  /\ UNCHANGED <<muBlob, muUp, muOthers>>

MuBodies == {<<"x">>}
MuMetas == {NoMeta, [k \in {"Mode"} |-> "x"]}
\* the metadata an upload is begun with: the first upload's is empty
UploadMetas(u) == IF u = 1 THEN {NoMeta} ELSE MuMetas

InitMulti ==
  /\ CopyInit /\ DeleteInit /\ BlobIdle /\ MountIdle /\ ClusterIdle
  /\ ErrorInit /\ MultiInit /\ TokenIdle /\ BlockIdInit

NextMulti ==
  \/ \E u \in MuUploads : \E metadata \in UploadMetas(u) :
       MultipartBlobBegin(u, <<"k">>, metadata)
  \/ \E u \in MuUploads, p \in MuParts, body \in MuBodies, oc \in MuOutcomes :
       MultipartBlobAdd(u, p, body, oc)
  \/ \E u \in MuUploads, p \in MuParts, oc \in MuOutcomes :
       MultipartBlobCopy(u, p, <<"s">>, p - 1, 1, oc)
  \/ \E u \in MuUploads : MultipartBlobAbort(u)
  \/ \E u \in MuUploads, numParts \in 0 .. MaxParts, oc \in MuOutcomes :
       MultipartBlobCommit(u, numParts, oc)
  \/ \E u \in MuUploads, p \in MuParts : ServiceCollects(u, p)

SpecMulti == InitMulti /\ [][NextMulti]_vars

ReadableSame == \A k \in MuKeys : Readable(muBlob'[k]) = Readable(muBlob[k])

\* C14: MultipartBlobBegin, MultipartBlobAdd, MultipartBlobCopy and
\* MultipartBlobAbort leave what HeadBlob and GetBlob find at every key as it
\* was, Begin and Abort send no request, and what is found at a key changes only
\* in a MultipartBlobCommit that returns no error.
C14_VisibleOnCommitOnly ==
  [][/\ muRes'.op \in {"MultipartBlobBegin", "MultipartBlobAdd", "MultipartBlobCopy",
                       "MultipartBlobAbort"} => ReadableSame
     /\ muRes'.op \in {"MultipartBlobBegin", "MultipartBlobAbort"} => muRes'.requests = 0
     /\ ~ReadableSame => (muRes'.op = "MultipartBlobCommit" /\ muRes'.err = "nil")
     /\ (muRes'.op = "MultipartBlobCommit" /\ muRes'.err # "nil") => ReadableSame]_vars

\* both parts of an upload are staged, one by Add and one by Copy, another
\* upload was given up, and the blob at the target key is the one from before
C14_Witness ==
  /\ muRes.op = "MultipartBlobCopy"
  /\ muRes.err = "nil"
  /\ muBlob[<<"k">>] = OldObject
  /\ \E u \in MuUploads :
       /\ muUp[u].state = "open"
       /\ muStaged[<<"k">>][BlockId(u, 1)] = [staged |-> TRUE, data |-> <<"x">>]
       /\ muStaged[<<"k">>][BlockId(u, 2)] = [staged |-> TRUE, data |-> <<"t">>]
  /\ \E u \in MuUploads : muUp[u].state = "aborted"

\* the ids of the committed blocks of a blob, in the order of its block list
CommittedIds(o) == [j \in 1 .. Len(o.blocks) |-> o.blocks[j].id]

\* C29: the block list MultipartBlobCommit sends is Parts[0] .. Parts[NumParts-1]
\* in index order, for every NumParts from 0 on, and after a commit without
\* error the blob consists of these blocks and no others; when the request
\* fails, the call returns mapAZBError of the request's error and a nil output.
C29_CommitsFirstParts ==
  muCommit.u # 0 =>
    LET up == muUp[muCommit.u]
    IN /\ muCommit.sent =>
            /\ Len(muCommit.ids) = muCommit.numParts
            /\ \A j \in 1 .. muCommit.numParts : muCommit.ids[j] = up.parts[j]
       /\ (muCommit.sent /\ muCommit.reqErr = NilErr) =>
            /\ muCommit.ret = NilErr
            /\ muCommit.hasOut
            /\ CommittedIds(muBlob[up.key]) = muCommit.ids
       /\ muCommit.reqErr # NilErr =>
            /\ muCommit.ret = mapAZBError(muCommit.reqErr)
            /\ muCommit.ret # NilErr
            /\ ~muCommit.hasOut

\* an upload with two parts staged was committed with NumParts 1
C29_Witness ==
  /\ muCommit.u # 0
  /\ muCommit.sent
  /\ muCommit.reqErr = NilErr
  /\ muCommit.numParts = 1
  /\ \A p \in MuParts : muUp[muCommit.u].parts[p] # NoPart

(***************************************************************************)
(* SpecToken: refreshToken and updateToken                                 *)
(***************************************************************************)
\* b.mu.Lock() returns to g (it waits while the mutex is locked)
TkLock(g) == tkMu = 0 /\ tkMu' = g

\* a branch that leaves without its Unlock
TkUnlockMissing(g) ==
  /\ tkMu' = tkMu
  /\ tkFatal' = tkFatal

\* b.mu.Unlock(): a fatal error of the runtime when the mutex is not locked
TkUnlock(g) ==
  /\ tkMu' = 0
  /\ tkFatal' = (tkFatal \/ tkMu = 0)

\* line 222: b.tokenExpire.Before(time.Now().UTC())
TokenExpired == tkLeft < 0

\* line 244: b.tokenExpire.Add(b.tokenRenewBuffer).Before(time.Now().UTC())
TokenNear == tkLeft + tkBuffer < 0

\* the positions inside updateToken
UpdatePcs == {"ut_provider", "ut_lock", "ut_store"}

\* an operation calls refreshToken (lines 214-219)
RefreshCall(p) ==
  /\ ~tkFatal
  /\ tkPc[p] = "idle"
  /\ tkPc' = [tkPc EXCEPT ![p] = IF tkProvider THEN "rt_lock" ELSE "rt_return"]
  /\ tkPath' = [tkPath EXCEPT ![p] = IF tkProvider THEN "none" ELSE "static"]
  /\ tkOwn' = [tkOwn EXCEPT ![p] = "none"]
  /\ tkSaw' = [tkSaw EXCEPT ![p] = FALSE]
  /\ tkRet' = [tkRet EXCEPT ![p] = NoReturn]
  /\ UNCHANGED <<tkProvider, tkBuffer, tkLeft, tkC, tkMu, tkGate, tkFatal, tkOthers>>

\* line 219
RefreshLock(p) ==
  /\ ~tkFatal
  /\ tkPc[p] = "rt_lock"
  /\ TkLock(p)
  /\ tkPc' = [tkPc EXCEPT ![p] = "rt_check"]
  /\ UNCHANGED <<tkProvider, tkBuffer, tkLeft, tkC, tkGate, tkFatal, tkPath, tkOwn,
                 tkSaw, tkRet, tkOthers>>

\* lines 221-267: the branch taken, and the Unlock each branch begins with
RefreshCheck(p) ==
  LET path == IF tkC = 0 THEN "nil"
              ELSE IF TokenExpired THEN "expired"
              ELSE IF TokenNear THEN "near"
              ELSE "valid"
  IN
  /\ ~tkFatal
  /\ tkPc[p] = "rt_check"
  /\ TkUnlock(p)
  /\ tkPath' = [tkPath EXCEPT ![p] = path]
  /\ tkPc' = [tkPc EXCEPT ![p] = CASE path = "nil" -> "ut_provider"
                                   [] path = "expired" -> "rt_gate"
                                   [] path = "near" -> "rt_select"
                                   [] path = "valid" -> "rt_return"]
  /\ UNCHANGED <<tkProvider, tkBuffer, tkLeft, tkC, tkGate, tkOwn, tkSaw, tkRet,
                 tkOthers>>

\* lines 226-227: b.tokenRenewGate <- 1 waits for room in the channel
RefreshGate(p) ==
  /\ ~tkFatal
  /\ tkPc[p] = "rt_gate"
  /\ tkGate = 0
  /\ tkGate' = p
  /\ tkPc' = [tkPc EXCEPT ![p] = "rt_relock"]
  /\ UNCHANGED <<tkProvider, tkBuffer, tkLeft, tkC, tkMu, tkFatal, tkPath, tkOwn,
                 tkSaw, tkRet, tkOthers>>

\* line 229
RefreshRelock(p) ==
  /\ ~tkFatal
  /\ tkPc[p] = "rt_relock"
  /\ TkLock(p)
  /\ tkPc' = [tkPc EXCEPT ![p] = "rt_recheck"]
  /\ UNCHANGED <<tkProvider, tkBuffer, tkLeft, tkC, tkGate, tkFatal, tkPath, tkOwn,
                 tkSaw, tkRet, tkOthers>>

\* lines 231-242: check again, and renew unless the token was renewed meanwhile
RefreshRecheck(p) ==
  /\ ~tkFatal
  /\ tkPc[p] = "rt_recheck"
  /\ TkUnlock(p)
  /\ tkPc' = [tkPc EXCEPT ![p] = IF TokenExpired THEN "ut_provider" ELSE "rt_return"]
  /\ UNCHANGED <<tkProvider, tkBuffer, tkLeft, tkC, tkGate, tkPath, tkOwn, tkSaw,
                 tkRet, tkOthers>>

\* lines 246-262: the select; with room in the channel the goroutine of the
\* renewal starts
RefreshSelect(p) ==
  /\ ~tkFatal
  /\ tkPc[p] = "rt_select"
  /\ IF tkGate = 0
     THEN /\ tkGate' = Renewer
          /\ tkPc' = [tkPc EXCEPT ![p] = "rt_return", ![Renewer] = "ut_provider"]
          /\ tkOwn' = [tkOwn EXCEPT ![Renewer] = "none"]
     ELSE /\ tkPc' = [tkPc EXCEPT ![p] = "rt_return"]
          /\ UNCHANGED <<tkGate, tkOwn>>
  /\ UNCHANGED <<tkProvider, tkBuffer, tkLeft, tkC, tkMu, tkFatal, tkPath, tkSaw,
                 tkRet, tkOthers>>

\* a caller that goes on to return b.c whatever its updateToken returned
AfterUpdateIgnoresError(g, own, c) ==
  IF g = Renewer
  THEN /\ tkPc' = [tkPc EXCEPT ![g] = "idle"]
       /\ tkGate' = 0
       /\ UNCHANGED <<tkRet>>
  ELSE /\ tkPc' = [tkPc EXCEPT ![g] = "rt_return"]
       /\ UNCHANGED <<tkGate, tkRet>>

\* the end of a goroutine's updateToken with an error, or of the renewer's with
\* any result: what its caller does with the result (lines 223, 234-239, 250-254)
AfterUpdate(g, own, c) ==
  IF g = Renewer
  THEN /\ tkPc' = [tkPc EXCEPT ![g] = "idle"]
       /\ tkGate' = 0
       /\ UNCHANGED <<tkRet>>
  ELSE /\ tkPc' = [tkPc EXCEPT ![g] = IF tkPath[g] = "expired" /\ own = "nil"
                                       THEN "rt_return" ELSE "done"]
       /\ tkGate' = IF tkPath[g] = "expired" /\ own # "nil" THEN 0 ELSE tkGate
       /\ tkRet' = [tkRet EXCEPT ![g] =
                      IF tkPath[g] = "nil" THEN [c |-> c, err |-> own]
                      ELSE IF own # "nil" THEN [c |-> 0, err |-> "EACCES"]
                      ELSE @]

\* lines 298-315: the token provider returns to updateToken; with an error of
\* the provider, or with a token url.Parse takes no URL from, updateToken ends
UpdateProvider(g, outcome) ==
  /\ ~tkFatal
  /\ tkPc[g] = "ut_provider"
  /\ IF outcome = "nil"
     THEN /\ tkPc' = [tkPc EXCEPT ![g] = "ut_lock"]
          /\ UNCHANGED <<tkGate, tkOwn, tkRet>>
     ELSE /\ tkOwn' = [tkOwn EXCEPT ![g] = outcome]
          /\ AfterUpdate(g, outcome, 0)
  /\ UNCHANGED <<tkProvider, tkBuffer, tkLeft, tkC, tkMu, tkFatal, tkPath, tkSaw,
                 tkOthers>>

\* line 317
UpdateLock(g) ==
  /\ ~tkFatal
  /\ tkPc[g] = "ut_lock"
  /\ TkLock(g)
  /\ tkPc' = [tkPc EXCEPT ![g] = "ut_store"]
  /\ UNCHANGED <<tkProvider, tkBuffer, tkLeft, tkC, tkGate, tkFatal, tkPath, tkOwn,
                 tkSaw, tkRet, tkOthers>>

\* lines 318-324: the new container URL and expiry, the deferred Unlock, and
\* the return of b.c; left is the time the new token is valid for
UpdateStore(g, left) ==
  LET c == IF tkC = 1 THEN 2 ELSE 1
  IN
  /\ ~tkFatal
  /\ tkPc[g] = "ut_store"
  /\ tkC' = c
  /\ tkLeft' = left
  /\ TkUnlock(g)
  /\ tkSaw' = [p \in TkCallers |-> tkSaw[p] \/ tkPc[p] # "idle"]
  /\ tkOwn' = [tkOwn EXCEPT ![g] = "nil"]
  /\ AfterUpdate(g, "nil", c)
  /\ UNCHANGED <<tkProvider, tkBuffer, tkPath, tkOthers>>

\* line 269 and the deferred receive of line 227: return b.c, nil
RefreshReturn(p) ==
  /\ ~tkFatal
  /\ tkPc[p] = "rt_return"
  /\ tkRet' = [tkRet EXCEPT ![p] = [c |-> tkC, err |-> "nil"]]
  /\ tkGate' = IF tkPath[p] = "expired" THEN 0 ELSE tkGate
  /\ tkPc' = [tkPc EXCEPT ![p] = "done"]
  /\ UNCHANGED <<tkProvider, tkBuffer, tkLeft, tkC, tkMu, tkFatal, tkPath, tkOwn,
                 tkSaw, tkOthers>>

\* the operation goes on with the result
RefreshDone(p) ==
  /\ tkPc[p] = "done"
  /\ tkPc' = [tkPc EXCEPT ![p] = "idle"]
  /\ tkPath' = [tkPath EXCEPT ![p] = "none"]
  /\ tkOwn' = [tkOwn EXCEPT ![p] = "none"]
  /\ tkSaw' = [tkSaw EXCEPT ![p] = FALSE]
  /\ tkRet' = [tkRet EXCEPT ![p] = NoReturn]
  /\ UNCHANGED <<tkProvider, tkBuffer, tkLeft, tkC, tkMu, tkGate, tkFatal, tkOthers>>

\* time passes
TokenTick ==
  /\ tkLeft > -MaxPast
  /\ tkLeft' = tkLeft - 1
  /\ UNCHANGED <<tkProvider, tkBuffer, tkC, tkMu, tkGate, tkFatal, tkPc, tkPath,
                 tkOwn, tkSaw, tkRet, tkOthers>>

\* what the token provider and url.Parse make of a renewal
UpdateOutcomes == {"nil", "EACCES", "EINVAL"}
\* the time a token handed out is valid for (none, when it is handed out late)
NewLefts == (-MaxPast) .. TokenLife

InitToken ==
  /\ CopyInit /\ DeleteInit /\ BlobIdle /\ MountIdle /\ ClusterIdle
  /\ ErrorInit /\ MultiIdle /\ TokenInit /\ BlockIdInit

\* the steps of one goroutine inside refreshToken and updateToken
TokenStep(g) ==
  \/ g \in TkCallers /\ RefreshLock(g)
  \/ g \in TkCallers /\ RefreshCheck(g)
  \/ g \in TkCallers /\ RefreshGate(g)
  \/ g \in TkCallers /\ RefreshRelock(g)
  \/ g \in TkCallers /\ RefreshRecheck(g)
  \/ g \in TkCallers /\ RefreshSelect(g)
  \/ \E outcome \in UpdateOutcomes : UpdateProvider(g, outcome)
  \/ UpdateLock(g)
  \/ \E left \in NewLefts : UpdateStore(g, left)
  \/ g \in TkCallers /\ RefreshReturn(g)

NextToken ==
  \/ \E p \in TkCallers : RefreshCall(p)
  \/ \E g \in Goroutines : TokenStep(g)
  \/ \E p \in TkCallers : RefreshDone(p)
  \/ TokenTick

SpecToken == InitToken /\ [][NextToken]_vars

\* the scheduler runs every goroutine that can take a step; a goroutine waiting
\* for the mutex or for room in the channel gets its turn (the runtime queues
\* the waiters), and the token provider returns
FairToken == SpecToken /\ \A g \in Goroutines : SF_vars(TokenStep(g))

\* the goroutines inside updateToken
Updating == {g \in Goroutines : tkPc[g] \in UpdatePcs}

\* C15: at most one call of updateToken, and so of the token provider, is under
\* way at any moment, however many operations call refreshToken.
C15_OneRenewalAtATime == Cardinality(Updating) <= 1

\* the positions at which a goroutine is between a Lock and its Unlock
LockedPcs == {"rt_check", "rt_recheck", "ut_store"}
\* the goroutine g holds a value in tokenRenewGate, by the code's text: from
\* the send of line 226 to the deferred receive, from the select of line 247 to
\* the receive of line 254
OwesGate(g) ==
  IF g = Renewer THEN tkPc[g] # "idle"
  ELSE tkPath[g] = "expired" /\ tkPc[g] \in {"rt_relock", "rt_recheck", "rt_return"} \cup UpdatePcs

MutexDiscipline ==
  /\ ~tkFatal
  /\ \A g \in Goroutines :
       /\ tkMu = g <=> tkPc[g] \in LockedPcs
       /\ tkPc[g] \in {"ut_provider", "rt_gate", "rt_select"} => tkMu # g
       /\ tkGate = g <=> OwesGate(g)

\* C16: refreshToken and updateToken hold the mutex neither while the token
\* provider is called nor while waiting for tokenRenewGate, unlock it once on
\* each path that locked it, and give back every slot of tokenRenewGate they
\* took; and every call of refreshToken returns, the token provider returning.
C16_NoDeadlock ==
  /\ []MutexDiscipline
  /\ \A p \in TkCallers : (tkPc[p] \notin {"idle", "done"}) ~> (tkPc[p] = "done")

\* a caller waits for tokenRenewGate while another, which took it, is calling
\* the token provider with the mutex unlocked
C16_Witness ==
  /\ tkPc[1] = "rt_gate"
  /\ tkPc[2] = "ut_provider"
  /\ tkGate = 2
  /\ tkMu = 0

\* C17: a call of refreshToken that found the token expired returns a container
\* only when an updateToken has stored a token since the call began, its own or
\* one it saw on checking again behind the gate; it returns EACCES and no
\* container when its own updateToken failed; and with a token provider no call
\* returns a nil container without an error.
C17_ExpiredRenewsInline ==
  \A p \in TkCallers :
    tkPc[p] = "done" =>
      /\ (tkPath[p] = "expired" /\ tkRet[p].err = "nil") =>
           /\ tkRet[p].c # 0
           /\ tkSaw[p]
           /\ tkOwn[p] \in {"nil", "none"}
      /\ (tkPath[p] = "expired" /\ tkOwn[p] \notin {"nil", "none"}) =>
           tkRet[p] = [c |-> 0, err |-> "EACCES"]
      /\ (tkProvider /\ tkRet[p].err = "nil") => tkRet[p].c # 0

\* one caller found the token expired and returns the container another caller's
\* renewal stored meanwhile; the other found it expired too and its own renewal
\* failed
C17_Witness ==
  /\ tkPc[1] = "done"
  /\ tkPath[1] = "expired"
  /\ tkOwn[1] = "none"
  /\ tkRet[1].err = "nil"
  /\ tkPc[2] = "done"
  /\ tkPath[2] = "expired"
  /\ tkOwn[2] = "EINVAL"
  /\ tkRet[2].err = "EACCES"

\* the token is not expired, and expires within the length of tokenRenewBuffer
NearExpiry ==
  /\ ~TokenExpired
  /\ tkLeft < (IF tkBuffer < 0 THEN -tkBuffer ELSE tkBuffer)

\* the renewal in the background ends with an error in this step
RenewerFails == tkPc[Renewer] = "ut_provider" /\ tkPc'[Renewer] = "idle"

\* C18: a call of refreshToken that finds the token not expired but within
\* tokenRenewBuffer of its expiry starts the renewal in the background unless
\* tokenRenewGate is taken, and returns the container it found without a call
\* of the token provider and without an error; a renewal in the background that
\* fails returns nothing to any caller and leaves token and container as they
\* were.
C18_NearExpiryRenewsBehind ==
  [][/\ \A p \in TkCallers :
          /\ (tkPc[p] = "rt_check" /\ tkPc'[p] # "rt_check" /\ tkC # 0 /\ NearExpiry)
               => tkPc'[p] = "rt_select"
          /\ (tkPc[p] = "rt_select" /\ tkPc'[p] # "rt_select") =>
               /\ tkPc'[p] = "rt_return"
               /\ tkGate = 0 => (tkGate' = Renewer /\ tkPc'[Renewer] = "ut_provider")
               /\ tkGate # 0 => (tkGate' = tkGate /\ tkPc'[Renewer] = tkPc[Renewer])
          /\ (tkPc'[p] = "done" /\ tkPc[p] # "done" /\ tkPath[p] = "near") =>
               /\ tkRet'[p] = [c |-> tkC, err |-> "nil"]
               /\ tkC # 0
               /\ tkOwn[p] = "none"
     /\ RenewerFails => UNCHANGED <<tkC, tkLeft, tkRet>>]_vars

(***************************************************************************)
(* SpecBlockId: the block id of a part.  A string is the sequence of its   *)
(* bytes.                                                                  *)
(***************************************************************************)
\* the bytes of the digits "0" .. "9" and of the hex digits "0" .. "f"
Digit(d) == 48 + d
HexDigit(h) == IF h < 10 THEN 48 + h ELSE 87 + h

\* uuid.New().String(): 36 bytes, hex digits in groups of 8, 4, 4, 4 and 12 with
\* "-" between them.  The uuids of the model: 1 and 2 differ in most digits, 1
\* and 3 in the last digit only.
Uuid(k) ==
  [i \in 1 .. 36 |->
     IF i \in {9, 14, 19, 24} THEN 45
     ELSE IF i = 15 THEN Digit(4)
     ELSE IF k = 3 THEN HexDigit(IF i = 36 THEN 7 ELSE i % 16)
     ELSE HexDigit((k * i) % 16)]
Uuids == {Uuid(k) : k \in {1, 2, 3}}

\* an upload id whose part numbers are formatted by "%d"
UploadIdPlain(uuid) == uuid \o <<58, 58, 37, 100>>

\* line 823: uuid.New().String() + "::%05d"
UploadId(uuid) == uuid \o <<58, 58, 37, 48, 53, 100>>

RECURSIVE Decimal(_)
\* the decimal digits of n
Decimal(n) ==
  IF n < 10 THEN <<Digit(n)>> ELSE Append(Decimal(n \div 10), Digit(n % 10))

RECURSIVE PadZero(_, _)
\* the flag 0 and a width: zeros in front of a number that is shorter
PadZero(s, width) ==
  IF Len(s) >= width THEN s ELSE PadZero(<<Digit(0)>> \o s, width)

\* lines 841, 862: fmt.Sprintf(format, n) for a format with one verb, "%d" or
\* "%0" width "d": the format with the verb replaced by the number
Sprintf(format, n) ==
  LET i == CHOOSE j \in 1 .. Len(format) :
             format[j] = 37 /\ \A k \in 1 .. j - 1 : format[k] # 37
  IN IF format[i + 1] = 100
     THEN SubSeq(format, 1, i - 1) \o Decimal(n) \o SubSeq(format, i + 2, Len(format))
     ELSE SubSeq(format, 1, i - 1) \o PadZero(Decimal(n), format[i + 2] - 48)
            \o SubSeq(format, i + 4, Len(format))

\* the alphabet of base64.StdEncoding: "A" .. "Z", "a" .. "z", "0" .. "9", "+", "/"
Base64Char(v) ==
  IF v < 26 THEN 65 + v
  ELSE IF v < 52 THEN 71 + v
  ELSE IF v < 62 THEN v - 4
  ELSE IF v = 62 THEN 43 ELSE 47

RECURSIVE EncodeToString(_)
\* lines 842, 863: base64.StdEncoding.EncodeToString, four characters for
\* three bytes, the last group filled with "="
EncodeToString(src) ==
  IF Len(src) = 0 THEN <<>>
  ELSE IF Len(src) = 1
  THEN <<Base64Char(src[1] \div 4), Base64Char((src[1] % 4) * 16), 61, 61>>
  ELSE IF Len(src) = 2
  THEN <<Base64Char(src[1] \div 4),
         Base64Char((src[1] % 4) * 16 + src[2] \div 16),
         Base64Char((src[2] % 16) * 4), 61>>
  ELSE <<Base64Char(src[1] \div 4),
         Base64Char((src[1] % 4) * 16 + src[2] \div 16),
         Base64Char((src[2] % 16) * 4 + src[3] \div 64),
         Base64Char(src[3] % 64)>> \o EncodeToString(SubSeq(src, 4, Len(src)))

\* lines 841-842: the block id MultipartBlobAdd stages the part under
AddBlockId(uploadId, partNumber) == EncodeToString(Sprintf(uploadId, partNumber))

\* lines 862-863: the block id MultipartBlobCopy stages the part under
CopyBlockId(uploadId, partNumber) == EncodeToString(Sprintf(uploadId, partNumber))

\* lines 821-832: MultipartBlobBegin makes the upload's id from a new uuid
BeginUploadId(u, uuid) ==
  /\ biUp[u] = NoUploadId
  /\ \A v \in BiUploads : biUp[v] # UploadId(uuid)
  /\ biUp' = [biUp EXCEPT ![u] = UploadId(uuid)]
  /\ UNCHANGED <<biPrev, biLast, biOthers>>

\* lines 840-842: MultipartBlobAdd names the block of part n of upload u
AddNamesBlock(u, n) ==
  /\ biUp[u] # NoUploadId
  /\ biPrev' = biLast
  /\ biLast' = [op |-> "MultipartBlobAdd", u |-> u, n |-> n,
                id |-> AddBlockId(biUp[u], n)]
  /\ UNCHANGED <<biUp, biOthers>>

\* lines 861-863: MultipartBlobCopy names the block of part n of upload u
CopyNamesBlock(u, n) ==
  /\ biUp[u] # NoUploadId
  /\ biPrev' = biLast
  /\ biLast' = [op |-> "MultipartBlobCopy", u |-> u, n |-> n,
                id |-> CopyBlockId(biUp[u], n)]
  /\ UNCHANGED <<biUp, biOthers>>

\* the part numbers of the model: the ends of 0 .. 99999 and the numbers at
\* which the count of digits changes
PartNumbers == {0, 9, 10, 99, 100, 9999, 10000, 99999}

InitBlockId ==
  /\ CopyInit /\ DeleteInit /\ BlobIdle /\ MountIdle /\ ClusterIdle
  /\ ErrorInit /\ MultiIdle /\ TokenIdle /\ BlockIdInit

NextBlockId ==
  \/ \E u \in BiUploads, uuid \in Uuids : BeginUploadId(u, uuid)
  \/ \E u \in BiUploads, n \in PartNumbers : AddNamesBlock(u, n)
  \/ \E u \in BiUploads, n \in PartNumbers : CopyNamesBlock(u, n)

SpecBlockId == InitBlockId /\ [][NextBlockId]_vars

IdCalls == {biPrev, biLast} \ {NoIdCall}

\* C28: of two calls of MultipartBlobAdd or MultipartBlobCopy, for part numbers
\* in 0 .. 99999: in one upload the same part number gives the same block id,
\* whichever of the two operations asks, and two part numbers give two block
\* ids of one length; in two uploads the block ids differ.
C28_BlockIdByUploadAndPart ==
  \A a, b \in IdCalls :
    /\ (a.u = b.u /\ a.n = b.n) => a.id = b.id
    /\ (a.u = b.u /\ a.n # b.n) => (a.id # b.id /\ Len(a.id) = Len(b.id))
    /\ a.u # b.u => a.id # b.id

\* part 9 was added and part 10 copied in one upload, while another upload,
\* whose uuid differs in its last digit, had begun
C28_Witness ==
  /\ biPrev.op = "MultipartBlobAdd"
  /\ biLast.op = "MultipartBlobCopy"
  /\ biPrev.u = biLast.u
  /\ biPrev.n = 9
  /\ biLast.n = 10
  /\ {biUp[u] : u \in BiUploads} = {UploadId(Uuid(1)), UploadId(Uuid(3))}

====
